---- MODULE Spec2Model ----
(***************************************************************************)
(* A model of the rgba Game Boy Advance core: the ARM7TDMI interpreter     *)
(* (src/src/cpu.rs), the memory bus with its interrupt controller          *)
(* (src/src/mem.rs) and the system step (src/src/lib.rs).                  *)
(*                                                                         *)
(* A 32-bit word is the pair <<hi, lo>> of its two 16-bit halves, so that  *)
(* every u32 of the program has its full width and wraps as in Rust.       *)
(***************************************************************************)
EXTENDS Integers, Sequences, FiniteSets, TLC

VARIABLES cpu, mem, ppu, obs

vars == <<cpu, mem, ppu, obs>>

(***************************************************************************)
(* 32-bit words.                                                           *)
(***************************************************************************)
W(hi, lo) == <<hi, lo>>

U(n) == <<n \div 65536, n % 65536>>

Hi(w) == w[1]

Lo(w) == w[2]

Bit(w, i) == IF i < 16 THEN (w[2] \div 2^i) % 2 ELSE (w[1] \div 2^(i - 16)) % 2

RECURSIVE SumBits(_, _, _)
SumBits(f, base, j) ==
    IF j = 16 THEN 0 ELSE f[base + j] * 2^j + SumBits(f, base, j + 1)

FromBits(f) == <<SumBits(f, 16, 0), SumBits(f, 0, 0)>>

And32(a, b) == FromBits([i \in 0..31 |-> Bit(a, i) * Bit(b, i)])

Or32(a, b) == FromBits([i \in 0..31 |-> IF Bit(a, i) + Bit(b, i) > 0 THEN 1 ELSE 0])

Xor32(a, b) == FromBits([i \in 0..31 |-> (Bit(a, i) + Bit(b, i)) % 2])

Not32(a) == <<65535 - a[1], 65535 - a[2]>>

\* wrapping_add / overflowing_add
Add32(a, b) ==
    LET lo == a[2] + b[2]
        hi == a[1] + b[1] + (lo \div 65536)
    IN  <<hi % 65536, lo % 65536>>

AddCarry(a, b) ==
    LET lo == a[2] + b[2]
        hi == a[1] + b[1] + (lo \div 65536)
    IN  hi >= 65536

\* wrapping_sub / overflowing_sub
Sub32(a, b) ==
    LET lo == a[2] - b[2] + 65536
        hi == a[1] - b[1] + 65535 + (lo \div 65536)
    IN  <<hi % 65536, lo % 65536>>

ULt(a, b) == a[1] < b[1] \/ (a[1] = b[1] /\ a[2] < b[2])

SubBorrow(a, b) == ULt(a, b)

\* (x as i32) < 0, (x as i32) > 0, (a as i32) < (b as i32)
SNeg(x) == x[1] >= 32768

SPos(x) == x[1] < 32768 /\ x # <<0, 0>>

SLt(a, b) == IF SNeg(a) # SNeg(b) THEN SNeg(a) ELSE ULt(a, b)

\* val << n, val >> n, (val as i32) >> n, val.rotate_right(n), for 0 <= n < 32
Shl32(a, n) == FromBits([i \in 0..31 |-> IF i >= n THEN Bit(a, i - n) ELSE 0])

Shr32(a, n) == FromBits([i \in 0..31 |-> IF i + n <= 31 THEN Bit(a, i + n) ELSE 0])

Asr32(a, n) == FromBits([i \in 0..31 |-> IF i + n <= 31 THEN Bit(a, i + n) ELSE Bit(a, 31)])

Ror32(a, n) == FromBits([i \in 0..31 |-> Bit(a, (i + n) % 32)])

\* (w >> k) & (2^n - 1) as a number, for n <= 24
Field(w, k, n) ==
    IF k >= 16
    THEN (w[1] \div 2^(k - 16)) % 2^n
    ELSE LET fromHi == IF n > 16 - k THEN n - (16 - k) ELSE 0
         IN  ((w[2] \div 2^k) + (w[1] % 2^fromHi) * 2^(16 - k)) % 2^n

\* a u32 below 2^31 as a number
ToInt(w) == w[1] * 65536 + w[2]

ULe(a, b) == ~ULt(b, a)

Between(w, first, last) == ULe(first, w) /\ ULe(w, last)

And16(a, b) == Lo(And32(W(0, a), W(0, b)))

Or16(a, b) == Lo(Or32(W(0, a), W(0, b)))

Not16(a) == 65535 - a

(***************************************************************************)
(* cpu.rs: CpsrFlags and Mode.                                             *)
(***************************************************************************)
FlagN == W(\h8000, 0)

FlagZ == W(\h4000, 0)

FlagC == W(\h2000, 0)

FlagV == W(\h1000, 0)

FlagIRQ == W(0, \h0080)

FlagFIQ == W(0, \h0040)

FlagTHUMB == W(0, \h0020)

User == 16

Fiq == 17

Irq == 18

Supervisor == 19

Abort == 23

Undefined == 27

System == 31

Modes == {User, Fiq, Irq, Supervisor, Abort, Undefined, System}

Mode_from_bits(bits) ==
    LET m == Field(bits, 0, 5)
    IN  IF m \in Modes THEN m ELSE System

(***************************************************************************)
(* cpu.rs: the Cpu object, a record of its fields.                         *)
(***************************************************************************)
Zero == W(0, 0)

Cpu_new ==
    [r |-> [n \in 0..15 |-> Zero],
     banked_r8_fiq |-> Zero, banked_r9_fiq |-> Zero, banked_r10_fiq |-> Zero,
     banked_r11_fiq |-> Zero, banked_r12_fiq |-> Zero,
     banked_sp |-> [i \in 0..5 |-> Zero],
     banked_lr |-> [i \in 0..5 |-> Zero],
     banked_spsr |-> [i \in 0..5 |-> Zero],
     cpsr |-> W(0, \h001F),
     pipeline |-> [i \in 0..2 |-> Zero],
     pipeline_pc |-> [i \in 0..2 |-> Zero],
     pipeline_loaded |-> FALSE]

reset(c) ==
    [r |-> [n \in 0..15 |->
               CASE n = 13 -> W(\h0300, \h7F00)
                 [] n = 14 -> W(\h0800, \h0004)
                 [] n = 15 -> W(\h0800, \h0000)
                 [] OTHER -> Zero],
     banked_r8_fiq |-> Zero, banked_r9_fiq |-> Zero, banked_r10_fiq |-> Zero,
     banked_r11_fiq |-> Zero, banked_r12_fiq |-> Zero,
     banked_sp |-> [i \in 0..5 |-> Zero],
     banked_lr |-> [i \in 0..5 |-> Zero],
     banked_spsr |-> [i \in 0..5 |-> Zero],
     cpsr |-> W(0, \h00DF),
     pipeline |-> [i \in 0..2 |-> Zero],
     pipeline_pc |-> [i \in 0..2 |-> Zero],
     pipeline_loaded |-> FALSE]

get_reg(c, n) == c.r[n]

set_reg(c, n, val) == [c EXCEPT !.r[n] = val]

get_sp(c) == c.r[13]

set_sp(c, val) == [c EXCEPT !.r[13] = val]

get_lr(c) == c.r[14]

set_lr(c, val) == [c EXCEPT !.r[14] = val]

get_pc(c) == c.r[15]

get_cpsr(c) == c.cpsr

set_pc(c, val) ==
    [c EXCEPT !.r[15] = And32(val, W(\hFFFF, \hFFFC)), !.pipeline_loaded = FALSE]

get_mode(c) == Mode_from_bits(c.cpsr)

\* a bank layout in which IRQ mode shares the Supervisor slot
mode_index_shared(mode) ==
    CASE mode = Fiq -> 0
      [] mode = Irq -> 2
      [] mode = Supervisor -> 2
      [] mode = Abort -> 3
      [] mode = Undefined -> 4
      [] mode = System -> 5
      [] mode = User -> 5

mode_index(mode) ==
    CASE mode = Fiq -> 0
      [] mode = Irq -> 1
      [] mode = Supervisor -> 2
      [] mode = Abort -> 3
      [] mode = Undefined -> 4
      [] mode = System -> 5
      [] mode = User -> 5

get_spsr(c) ==
    LET idx == mode_index(get_mode(c))
    IN  IF idx < 6 THEN c.banked_spsr[idx] ELSE c.cpsr

set_spsr(c, val) ==
    LET idx == mode_index(get_mode(c))
    IN  IF idx < 6 THEN [c EXCEPT !.banked_spsr[idx] = val] ELSE c

set_mode(c, mode) ==
    LET current == get_mode(c)
        idx == mode_index(current)
        idx2 == mode_index(mode)
        \* save the current mode's banked registers
        Save(spsr) ==
            IF idx < 6
            THEN [c EXCEPT !.banked_sp[idx] = c.r[13],
                           !.banked_lr[idx] = c.r[14],
                           !.banked_spsr[idx] = spsr]
            ELSE c
        \* switch the mode bits
        Switch(saved) ==
            [saved EXCEPT
                !.cpsr = Or32(And32(saved.cpsr, Not32(W(0, \h001F))), U(mode))]
        \* load the new mode's banked registers
        Load(switched) ==
            IF idx2 < 6
            THEN [switched EXCEPT !.r[13] = switched.banked_sp[idx2],
                                  !.r[14] = switched.banked_lr[idx2]]
            ELSE switched
        \* the FIQ-specific registers R8-R12
        Fiq8to12(loaded) ==
            IF mode = Fiq
            THEN [loaded EXCEPT !.banked_r8_fiq = loaded.r[8],
                                !.banked_r9_fiq = loaded.r[9],
                                !.banked_r10_fiq = loaded.r[10],
                                !.banked_r11_fiq = loaded.r[11],
                                !.banked_r12_fiq = loaded.r[12]]
            ELSE IF current = Fiq
            THEN [loaded EXCEPT !.r[8] = loaded.banked_r8_fiq,
                                !.r[9] = loaded.banked_r9_fiq,
                                !.r[10] = loaded.banked_r10_fiq,
                                !.r[11] = loaded.banked_r11_fiq,
                                !.r[12] = loaded.banked_r12_fiq]
            ELSE loaded
    IN  IF current = mode THEN c
        ELSE Fiq8to12(Load(Switch(Save(get_spsr(c)))))

SetBits(w, mask, val) == IF val THEN Or32(w, mask) ELSE And32(w, Not32(mask))

TestBits(w, mask) == And32(w, mask) # Zero

get_flag_n(c) == TestBits(c.cpsr, FlagN)

set_flag_n(c, val) == [c EXCEPT !.cpsr = SetBits(c.cpsr, FlagN, val)]

get_flag_z(c) == TestBits(c.cpsr, FlagZ)

set_flag_z(c, val) == [c EXCEPT !.cpsr = SetBits(c.cpsr, FlagZ, val)]

get_flag_c(c) == TestBits(c.cpsr, FlagC)

set_flag_c(c, val) == [c EXCEPT !.cpsr = SetBits(c.cpsr, FlagC, val)]

get_flag_v(c) == TestBits(c.cpsr, FlagV)

set_flag_v(c, val) == [c EXCEPT !.cpsr = SetBits(c.cpsr, FlagV, val)]

is_thumb_mode(c) == TestBits(c.cpsr, FlagTHUMB)

set_thumb_mode(c, thumb) == [c EXCEPT !.cpsr = SetBits(c.cpsr, FlagTHUMB, thumb)]

are_interrupts_enabled(c) == ~TestBits(c.cpsr, FlagIRQ)

set_interrupts_enabled(c, enabled) ==
    [c EXCEPT !.cpsr = SetBits(c.cpsr, FlagIRQ, ~enabled)]

take_interrupt(c) ==
    [set_pc([set_lr(set_mode(c, Irq), Sub32(get_pc(c), U(4))) EXCEPT
                !.banked_spsr[2] = c.cpsr,
                !.cpsr = Or32(@, W(0, \h0080))],
            W(0, \h0018))
        EXCEPT !.pipeline_loaded = FALSE]

(***************************************************************************)
(* mem.rs: InterruptController.  A mask (bitflags Interrupt: u16) is the   *)
(* number of its bits.                                                     *)
(***************************************************************************)
InterruptAll == \h3FFF

Interrupt_VBLANK == \h0001

from_bits_truncate(val) == And16(val, InterruptAll)

InterruptController_new ==
    [ie |-> 0, ie_fp |-> 0, if_raw |-> 0, if_processed |-> 0,
     ime |-> FALSE, in_interrupt |-> FALSE]

request(ic, interrupt) == [ic EXCEPT !.if_raw = Or16(ic.if_raw, interrupt)]

RECURSIVE trailing_zeros(_)
trailing_zeros(n) == IF n % 2 = 1 THEN 0 ELSE 1 + trailing_zeros(n \div 2)

None == <<"None">>

Some(x) == <<"Some", x>>

\* a get_pending that does not look at the master enable
get_pending_ungated(ic) ==
    LET pending == And16(ic.ie, ic.if_raw)
    IN  IF pending = 0 THEN None
        ELSE Some(from_bits_truncate(2^trailing_zeros(pending)))

get_pending(ic) ==
    IF ~ic.ime THEN None
    ELSE LET pending == And16(ic.ie, ic.if_raw)
         IN  IF pending = 0 THEN None
             ELSE Some(from_bits_truncate(2^trailing_zeros(pending)))

acknowledge(ic, interrupt) ==
    [ic EXCEPT !.if_raw = And16(ic.if_raw, Not16(interrupt)),
               !.if_processed = And16(ic.if_processed, Not16(interrupt))]

should_take_interrupt(ic) ==
    IF ~ic.ime \/ ic.in_interrupt THEN FALSE
    ELSE And16(ic.ie, ic.if_raw) # 0

enter_interrupt(ic) == [ic EXCEPT !.in_interrupt = TRUE, !.ime = FALSE]

exit_interrupt(ic) == [ic EXCEPT !.in_interrupt = FALSE, !.ime = TRUE]

read_register(ic, offset) ==
    CASE offset = \h000 -> ic.ie
      [] offset = \h002 -> ic.if_raw
      [] offset = \h200 -> ic.ie_fp
      [] offset = \h208 -> IF ic.ime THEN 1 ELSE 0
      [] OTHER -> 0

write_register(ic, offset, val) ==
    CASE offset = \h000 -> [ic EXCEPT !.ie = from_bits_truncate(val)]
      [] offset = \h002 ->
            [ic EXCEPT !.if_raw = And16(ic.if_raw, Not16(from_bits_truncate(val))),
                       !.if_processed =
                           And16(ic.if_processed, Not16(from_bits_truncate(val)))]
      [] offset = \h200 -> [ic EXCEPT !.ie_fp = from_bits_truncate(val)]
      [] offset = \h208 -> [ic EXCEPT !.ime = (val # 0)]
      [] OTHER -> ic

(***************************************************************************)
(* mem.rs: Memory.  A byte array is the function of its non-zero bytes.    *)
(***************************************************************************)
NoBytes == <<>>

Get(a, off) == IF off \in DOMAIN a THEN a[off] ELSE 0

Put(a, off, v) ==
    IF v = 0 THEN [x \in DOMAIN a \ {off} |-> a[x]] ELSE (off :> v) @@ a

\* Memory::new: the stub BIOS image, NOPs with a branch and four returns
StubBios(off) ==
    LET word == off - (off % 4)
        b == off % 4
    IN  IF word = 0 THEN <<\h3E, \h00, \h00, \hEA>>[b + 1]
        ELSE IF word \in {\h164, \h17C, \h200, \h208}
        THEN <<\h1E, \hFF, \h2F, \hE1>>[b + 1]
        ELSE <<\h00, \h00, \hA0, \hE1>>[b + 1]

BiosByte(bios, off) ==
    IF off \in DOMAIN bios.data THEN bios.data[off]
    ELSE IF bios.stub THEN StubBios(off) ELSE 0

Memory_new ==
    [bios |-> [stub |-> TRUE, data |-> NoBytes],
     wram |-> NoBytes, iwram |-> NoBytes, io |-> NoBytes, palette |-> NoBytes,
     vram |-> NoBytes, oam |-> NoBytes,
     rom |-> [len |-> 0, data |-> NoBytes],
     waitcnt |-> 0,
     interrupt |-> InterruptController_new]

Memory_reset(m) ==
    [m EXCEPT !.wram = NoBytes, !.iwram = NoBytes, !.io = NoBytes,
              !.palette = NoBytes, !.vram = NoBytes, !.oam = NoBytes,
              !.waitcnt = 0, !.interrupt = InterruptController_new]

\* data: a sequence of bytes
Bytes(data) == [off \in {i - 1 : i \in {j \in DOMAIN data : data[j] # 0}} |-> data[off + 1]]

load_rom(m, data) == [m EXCEPT !.rom = [len |-> Len(data), data |-> Bytes(data)]]

load_bios(m, data) ==
    [m EXCEPT !.bios = [stub |-> FALSE,
                        data |-> Bytes(SubSeq(data, 1, IF Len(data) < \h4000
                                                          THEN Len(data) ELSE \h4000))]]

has_bios(m) == m.bios.stub \/ DOMAIN m.bios.data # {}

Max(a, b) == IF a > b THEN a ELSE b

\* map_address with the offset in the two mirror windows taken from the base of
\* the first window
map_region_one_base(m, hi, lo) ==
    CASE hi = 0 /\ lo <= \h3FFF ->                 \* 0x00000000..=0x00003FFF
            <<"Bios", lo>>
      [] hi >= \h0200 /\ hi <= \h020F ->            \* 0x02000000..=0x020FFFFF
            <<"Wram", ((hi - \h0200) % 4) * 65536 + lo>>      \* & 0x3FFFF
      [] hi >= \h0300 /\ hi <= \h030F ->            \* 0x03000000..=0x030FFFFF
            <<"Iwram", lo % 32768>>                            \* & 0x7FFF
      [] hi = \h0400 /\ lo <= \h03FE ->             \* 0x04000000..=0x040003FE
            <<"Io", lo>>
      [] hi = \h0500 /\ lo <= \h03FF ->             \* 0x05000000..=0x050003FF
            <<"Palette", lo>>
      [] hi >= \h0500 /\ hi <= \h050F ->            \* 0x05000400..=0x050FFFFF
            <<"Palette", lo % 1024>>                           \* & 0x3FF
      [] hi >= \h0600 /\ hi <= \h060F ->            \* 0x06000000..=0x060FFFFF
            <<"Vram", ((hi - \h0600) % 2) * 65536 + (lo % 32768)>>  \* & 0x17FFF
      [] hi = \h0700 /\ lo <= \h03FF ->             \* 0x07000000..=0x070003FF
            <<"Oam", lo>>
      [] hi >= \h0700 /\ hi <= \h070F ->            \* 0x07000400..=0x070FFFFF
            <<"Oam", lo % 1024>>                               \* & 0x3FF
      [] hi >= \h0800 /\ hi <= \h09FF ->            \* 0x08000000..=0x09FFFFFF
            <<"Rom", ((hi - \h0800) * 65536 + lo) % Max(m.rom.len, 1)>>
      [] hi >= \h0A00 /\ hi <= \h0BFF ->            \* 0x0A000000..=0x0BFFFFFF
            <<"Rom", ((hi - \h0800) * 65536 + lo) % Max(m.rom.len, 1)>>
      [] hi >= \h0C00 /\ hi <= \h0DFF ->            \* 0x0C000000..=0x0DFFFFFF
            <<"Rom", ((hi - \h0800) * 65536 + lo) % Max(m.rom.len, 1)>>
      [] OTHER -> <<"Unknown", 0>>

\* hi, lo: the two halves of the address; the u32 addr - base and its masks
\* are computed on the halves
map_region(m, hi, lo) ==
    CASE hi = 0 /\ lo <= \h3FFF ->                 \* 0x00000000..=0x00003FFF
            <<"Bios", lo>>
      [] hi >= \h0200 /\ hi <= \h020F ->            \* 0x02000000..=0x020FFFFF
            <<"Wram", ((hi - \h0200) % 4) * 65536 + lo>>      \* & 0x3FFFF
      [] hi >= \h0300 /\ hi <= \h030F ->            \* 0x03000000..=0x030FFFFF
            <<"Iwram", lo % 32768>>                            \* & 0x7FFF
      [] hi = \h0400 /\ lo <= \h03FE ->             \* 0x04000000..=0x040003FE
            <<"Io", lo>>
      [] hi = \h0500 /\ lo <= \h03FF ->             \* 0x05000000..=0x050003FF
            <<"Palette", lo>>
      [] hi >= \h0500 /\ hi <= \h050F ->            \* 0x05000400..=0x050FFFFF
            <<"Palette", lo % 1024>>                           \* & 0x3FF
      [] hi >= \h0600 /\ hi <= \h060F ->            \* 0x06000000..=0x060FFFFF
            <<"Vram", ((hi - \h0600) % 2) * 65536 + (lo % 32768)>>  \* & 0x17FFF
      [] hi = \h0700 /\ lo <= \h03FF ->             \* 0x07000000..=0x070003FF
            <<"Oam", lo>>
      [] hi >= \h0700 /\ hi <= \h070F ->            \* 0x07000400..=0x070FFFFF
            <<"Oam", lo % 1024>>                               \* & 0x3FF
      [] hi >= \h0800 /\ hi <= \h09FF ->            \* 0x08000000..=0x09FFFFFF
            <<"Rom", ((hi - \h0800) * 65536 + lo) % Max(m.rom.len, 1)>>
      [] hi >= \h0A00 /\ hi <= \h0BFF ->            \* 0x0A000000..=0x0BFFFFFF
            <<"Rom", ((hi - \h0A00) * 65536 + lo) % Max(m.rom.len, 1)>>
      [] hi >= \h0C00 /\ hi <= \h0DFF ->            \* 0x0C000000..=0x0DFFFFFF
            <<"Rom", ((hi - \h0C00) * 65536 + lo) % Max(m.rom.len, 1)>>
      [] OTHER -> <<"Unknown", 0>>

map_address(m, addr) == map_region(m, Hi(addr), Lo(addr))

\* the interrupt register an I/O offset belongs to, -1 if none
int_offset_of(offset) ==
    CASE offset \in {\h200, \h201} -> \h200
      [] offset \in {\h202, \h203} -> \h202
      [] offset = \h208 -> \h208
      [] OTHER -> -1

byte_index_of(offset) ==
    IF offset \in {\h200, \h201, \h202, \h203} THEN offset % 2 ELSE 0

\* offset: addr - 0x04000000, for an addr of the I/O region
read_io_at(m, offset, int_offset) ==
    IF int_offset # -1
    THEN IF int_offset = \h208 THEN read_register(m.interrupt, int_offset) % 256
         ELSE (read_register(m.interrupt, int_offset)
                  \div 2^(8 * byte_index_of(offset))) % 256
    ELSE CASE offset = \h000 -> Or16(Get(m.io, offset), \h80)
           [] offset \in {\h130, \h131} -> \hFF
           [] OTHER -> Get(m.io, offset)

read_io(m, addr) == read_io_at(m, Lo(addr), int_offset_of(Lo(addr)))

write_io_at(m, offset, int_offset, val) ==
    IF int_offset # -1
    THEN [m EXCEPT !.interrupt =
            write_register(m.interrupt, int_offset,
                IF int_offset = \h208 THEN val
                ELSE Or16(And16(read_register(m.interrupt, int_offset),
                                Not16(255 * 2^(8 * byte_index_of(offset)))),
                          val * 2^(8 * byte_index_of(offset))))]
    ELSE IF offset = \h204
    THEN [m EXCEPT !.waitcnt = val + 256 * Get(m.io, offset + 1)]
    ELSE [m EXCEPT !.io = Put(m.io, offset, val)]

write_io(m, addr, val) == write_io_at(m, Lo(addr), int_offset_of(Lo(addr)), val)

read_byte_at(m, addr, ro) ==
    CASE ro[1] = "Bios" -> BiosByte(m.bios, ro[2])
      [] ro[1] = "Wram" -> Get(m.wram, ro[2])
      [] ro[1] = "Iwram" -> Get(m.iwram, ro[2])
      [] ro[1] = "Io" -> read_io(m, addr)
      [] ro[1] = "Palette" -> Get(m.palette, ro[2])
      [] ro[1] = "Vram" -> Get(m.vram, ro[2])
      [] ro[1] = "Oam" -> Get(m.oam, ro[2])
      [] ro[1] = "Rom" ->
            IF m.rom.len = 0 THEN 0 ELSE Get(m.rom.data, ro[2] % m.rom.len)
      [] OTHER -> 0

read_byte(m, addr) == read_byte_at(m, addr, map_address(m, addr))

write_byte_internal_at(m, addr, val, ro) ==
    CASE ro[1] = "Wram" -> [m EXCEPT !.wram = Put(m.wram, ro[2], val)]
      [] ro[1] = "Iwram" -> [m EXCEPT !.iwram = Put(m.iwram, ro[2], val)]
      [] ro[1] = "Io" -> write_io(m, addr, val)
      [] ro[1] = "Palette" -> [m EXCEPT !.palette = Put(m.palette, ro[2], val)]
      [] ro[1] = "Vram" -> [m EXCEPT !.vram = Put(m.vram, ro[2], val)]
      [] ro[1] = "Oam" -> [m EXCEPT !.oam = Put(m.oam, ro[2], val)]
      [] OTHER -> m

write_byte_internal(m, addr, val) ==
    write_byte_internal_at(m, addr, val, map_address(m, addr))

write_byte_at(m, addr, val, region, half_offset) ==
    CASE region = "Oam" -> m
      [] region = "Vram" ->
            [m EXCEPT !.vram = Put(Put(m.vram, half_offset, val), half_offset + 1, val)]
      [] region = "Palette" ->
            [m EXCEPT !.palette =
                 Put(Put(m.palette, half_offset, val), half_offset + 1, val)]
      [] OTHER -> write_byte_internal(m, addr, val)

write_byte(m, addr, val) ==
    write_byte_at(m, addr, val, map_address(m, addr)[1],
                  map_address(m, addr)[2] - (map_address(m, addr)[2] % 2))

\* u16::rotate_right(8 * k) of the half-word low + 256 * high
RotHalf(v, k) == IF k % 2 = 0 THEN v ELSE (v \div 256) + 256 * (v % 256)

\* bytes: the two bytes read one by one at addr and addr + 1
read_half_unaligned(m, ro, bytes) ==
    RotHalf(CASE ro[1] = "Palette" ->
                   Get(m.palette, ro[2]) + 256 * Get(m.palette, ro[2] + 1)
              [] ro[1] = "Vram" ->
                   Get(m.vram, ro[2]) + 256 * Get(m.vram, ro[2] + 1)
              [] ro[1] = "Oam" ->
                   Get(m.oam, ro[2]) + 256 * Get(m.oam, ro[2] + 1)
              [] OTHER -> bytes,
            1)

read_half_of(m, addr, bytes) ==
    IF Bit(addr, 0) = 1
    THEN read_half_unaligned(m, map_address(m, And32(addr, W(\hFFFF, \hFFFE))), bytes)
    ELSE bytes

\* a u16
read_half(m, addr) ==
    read_half_of(m, addr, read_byte(m, addr) + 256 * read_byte(m, Add32(addr, U(1))))

write_half(m, addr, val) ==
    write_byte_internal(write_byte_internal(m, addr, val % 256),
                        Add32(addr, U(1)), val \div 256)

read_word_unaligned(m, addr, aligned) ==
    Ror32(W(read_half(m, Add32(aligned, U(2))), read_half(m, aligned)),
          8 * Field(addr, 0, 2))

read_word(m, addr) ==
    IF Field(addr, 0, 2) # 0
    THEN read_word_unaligned(m, addr, And32(addr, W(\hFFFF, \hFFFC)))
    ELSE W(read_byte(m, Add32(addr, U(2))) + 256 * read_byte(m, Add32(addr, U(3))),
           read_byte(m, addr) + 256 * read_byte(m, Add32(addr, U(1))))

write_word(m, addr, val) ==
    write_byte_internal(
        write_byte_internal(
            write_byte_internal(
                write_byte_internal(m, addr, Lo(val) % 256),
                Add32(addr, U(1)), Lo(val) \div 256),
            Add32(addr, U(2)), Hi(val) % 256),
        Add32(addr, U(3)), Hi(val) \div 256)


(***************************************************************************)
(* cpu.rs: the full-word (ARM) instruction engine.  A handler maps the     *)
(* Cpu and the Memory to the pair after it and the cycles it returns.      *)
(***************************************************************************)
R(c, m, cycles) == [cpu |-> c, mem |-> m, cycles |-> cycles, panic |-> FALSE]

\* an unchecked u32 subtraction that underflowed: a build with overflow checks
\* stops there, a build without them goes on with the wrapped value
Overflowed(res) == [res EXCEPT !.panic = TRUE]

IncPc(c, n) == [c EXCEPT !.r[15] = Add32(c.r[15], U(n))]

\* a condition table whose LS is "not C and Z"
check_condition_ls(c, cond) ==
    CASE cond = 0 -> get_flag_z(c)
      [] cond = 1 -> ~get_flag_z(c)
      [] cond = 2 -> get_flag_c(c)
      [] cond = 3 -> ~get_flag_c(c)
      [] cond = 4 -> get_flag_n(c)
      [] cond = 5 -> ~get_flag_n(c)
      [] cond = 6 -> get_flag_v(c)
      [] cond = 7 -> ~get_flag_v(c)
      [] cond = 8 -> get_flag_c(c) /\ ~get_flag_z(c)
      [] cond = 9 -> ~get_flag_c(c) /\ get_flag_z(c)
      [] cond = 10 -> get_flag_n(c) = get_flag_v(c)
      [] cond = 11 -> get_flag_n(c) # get_flag_v(c)
      [] cond = 12 -> ~get_flag_z(c) /\ (get_flag_n(c) = get_flag_v(c))
      [] cond = 13 -> get_flag_z(c) \/ (get_flag_n(c) # get_flag_v(c))
      [] cond = 14 -> TRUE
      [] OTHER -> FALSE

check_condition(c, cond) ==
    CASE cond = 0 -> get_flag_z(c)
      [] cond = 1 -> ~get_flag_z(c)
      [] cond = 2 -> get_flag_c(c)
      [] cond = 3 -> ~get_flag_c(c)
      [] cond = 4 -> get_flag_n(c)
      [] cond = 5 -> ~get_flag_n(c)
      [] cond = 6 -> get_flag_v(c)
      [] cond = 7 -> ~get_flag_v(c)
      [] cond = 8 -> get_flag_c(c) /\ ~get_flag_z(c)
      [] cond = 9 -> ~(get_flag_c(c) /\ ~get_flag_z(c))
      [] cond = 10 -> get_flag_n(c) = get_flag_v(c)
      [] cond = 11 -> get_flag_n(c) # get_flag_v(c)
      [] cond = 12 -> ~get_flag_z(c) /\ (get_flag_n(c) = get_flag_v(c))
      [] cond = 13 -> get_flag_z(c) \/ (get_flag_n(c) # get_flag_v(c))
      [] cond = 14 -> TRUE
      [] OTHER -> FALSE

decode_operand2(c, operand2, is_immediate) ==
    LET shift == (operand2 \div 16) % 256
    IN  IF is_immediate
        THEN Ror32(W(0, operand2 % 256), ((operand2 \div 256) % 16) * 2)
        ELSE LET val == c.r[operand2 % 16]
                 shift_type == (shift \div 2) % 4
                 amount == shift \div 8
             IN  CASE shift_type = 0 -> Shl32(val, amount)
                   [] shift_type = 1 -> Shr32(val, amount)
                   [] shift_type = 2 -> Asr32(val, amount)
                   [] shift_type = 3 -> Ror32(val, amount)

set_flags_from_result(c, result) == set_flag_z(set_flag_n(c, SNeg(result)), result = Zero)

SetNZCV(c, result, carry, overflow) ==
    set_flag_v(set_flag_c(set_flags_from_result(c, result), carry), overflow)

\* the write of PC by an operation that has a destination
data_processing_finish(m, op, rd, after) ==
    IF rd = 15 /\ op < 8
    THEN R(set_thumb_mode(set_pc(after, And32(after.r[15], W(\hFFFF, \hFFFE))),
                          Bit(after.r[15], 0) = 1), m, 1)
    ELSE R(IncPc(after, 4), m, 1)

\* the logical operations: the result, and N and Z when S is set
data_processing_logic(c, s, rd, result) ==
    IF s THEN set_flags_from_result([c EXCEPT !.r[rd] = result], result)
    ELSE [c EXCEPT !.r[rd] = result]

\* SUB, RSB, SBC, RSC: a - b
data_processing_sub(c, s, rd, a, b) ==
    IF s THEN SetNZCV([c EXCEPT !.r[rd] = Sub32(a, b)], Sub32(a, b), ~SubBorrow(a, b),
                      SLt(a, b) # SNeg(Sub32(a, b)))
    ELSE [c EXCEPT !.r[rd] = Sub32(a, b)]

\* the flags of ADD and CMN
data_processing_add_flags(c1, rn_val, op2_val, result, carry) ==
    SetNZCV(c1, result, carry,
            (SPos(rn_val) /\ SPos(op2_val) /\ SNeg(result))
            \/ (SNeg(rn_val) /\ SNeg(op2_val) /\ SPos(result)))

data_processing_adc(c, s, rd, rn_val, op2_val, result1, carry_in) ==
    IF s
    THEN SetNZCV([c EXCEPT !.r[rd] = Add32(result1, carry_in)],
                 Add32(result1, carry_in),
                 AddCarry(rn_val, op2_val) \/ AddCarry(result1, carry_in),
                 (SPos(rn_val) /\ SPos(op2_val)) \/ SNeg(Add32(result1, carry_in)))
    ELSE [c EXCEPT !.r[rd] = Add32(result1, carry_in)]

data_processing_op(c, op, s, rd, rn_val, op2_val, carry_in, not_carry) ==
    CASE op = 0 -> data_processing_logic(c, s, rd, And32(rn_val, op2_val))
      [] op = 1 -> data_processing_logic(c, s, rd, Xor32(rn_val, op2_val))
      [] op = 2 -> data_processing_sub(c, s, rd, rn_val, op2_val)
      [] op = 3 -> data_processing_sub(c, s, rd, op2_val, rn_val)
      [] op = 4 ->
            IF s
            THEN data_processing_add_flags([c EXCEPT !.r[rd] = Add32(rn_val, op2_val)],
                                           rn_val, op2_val, Add32(rn_val, op2_val),
                                           AddCarry(rn_val, op2_val))
            ELSE [c EXCEPT !.r[rd] = Add32(rn_val, op2_val)]
      [] op = 5 -> data_processing_adc(c, s, rd, rn_val, op2_val,
                                       Add32(rn_val, op2_val), carry_in)
      [] op = 6 -> data_processing_sub(c, s, rd, rn_val, Add32(op2_val, not_carry))
      [] op = 7 -> data_processing_sub(c, s, rd, op2_val, Add32(rn_val, not_carry))
      [] op = 8 -> set_flags_from_result(c, And32(rn_val, op2_val))
      [] op = 9 -> set_flags_from_result(c, Xor32(rn_val, op2_val))
      [] op = 10 -> SetNZCV(c, Sub32(rn_val, op2_val), ~SubBorrow(rn_val, op2_val),
                            SLt(rn_val, op2_val) # SNeg(Sub32(rn_val, op2_val)))
      [] op = 11 -> data_processing_add_flags(c, rn_val, op2_val, Add32(rn_val, op2_val),
                                              AddCarry(rn_val, op2_val))
      [] op = 12 -> data_processing_logic(c, s, rd, Or32(rn_val, op2_val))
      [] op = 13 -> data_processing_logic(c, s, rd, op2_val)
      [] op = 14 -> data_processing_logic(c, s, rd, And32(rn_val, Not32(op2_val)))
      [] op = 15 -> data_processing_logic(c, s, rd, Not32(op2_val))

\* MOV PC, op2: the branch of MOV with PC as destination
data_processing_mov_pc(c, m, s, op2_val) ==
    R(set_thumb_mode(IF s
                     THEN set_flags_from_result(
                              set_pc(c, And32(op2_val, W(\hFFFF, \hFFFE))), op2_val)
                     ELSE set_pc(c, And32(op2_val, W(\hFFFF, \hFFFE))),
                     Bit(op2_val, 0) = 1),
      m, 1)

data_processing_exec(c, m, op, s, rd, rn_val, op2_val) ==
    IF op = 13 /\ rd = 15
    THEN data_processing_mov_pc(c, m, s, op2_val)
    ELSE data_processing_finish(m, op, rd,
             data_processing_op(c, op, s, rd, rn_val, op2_val,
                                IF get_flag_c(c) THEN U(1) ELSE U(0),
                                IF get_flag_c(c) THEN U(0) ELSE U(1)))

execute_arm_data_processing(c, m, opcode) ==
    data_processing_exec(c, m, Field(opcode, 21, 4), Bit(opcode, 20) = 1,
                         Field(opcode, 12, 4), c.r[Field(opcode, 16, 4)],
                         decode_operand2(c, Field(opcode, 0, 12), Bit(opcode, 25) = 1))

\* MSR to the SPSR of the current mode: the low byte, then the rest
psr_spsr_flags(apply_flags, val, spsr0) ==
    IF apply_flags
    THEN Or32(And32(spsr0, W(\h0FFF, \hFF00)), And32(val, W(0, \h00FF)))
    ELSE spsr0

psr_spsr_others(others, val, spsr1) ==
    IF others
    THEN Or32(And32(spsr1, W(0, \h00FF)), And32(val, W(\hFFFF, \hFF00)))
    ELSE spsr1

\* the mode switch after the control bits were written
psr_remode(c2) ==
    IF Mode_from_bits(c2.cpsr) # get_mode(c2)
    THEN set_mode(c2, Mode_from_bits(c2.cpsr))
    ELSE c2

psr_keep_flags(apply_flags, flags, cpsr2) ==
    IF apply_flags THEN Or32(And32(cpsr2, W(\h0FFF, \hFFFF)), flags) ELSE cpsr2

\* MSR to the CPSR, control part: bits 31-8 from the operand, the flags kept
psr_control(apply_flags, val, c1) ==
    psr_remode([c1 EXCEPT !.cpsr =
                   psr_keep_flags(apply_flags, And32(c1.cpsr, W(\hF000, 0)),
                                  Or32(And32(c1.cpsr, W(0, \h00FF)),
                                       And32(val, W(\hFFFF, \hFF00))))])

psr_cpsr(apply_flags, others, val, c1) ==
    IF others /\ get_mode(c1) # User THEN psr_control(apply_flags, val, c1) ELSE c1

psr_msr(c, psr, apply_flags, others, val) ==
    IF psr
    THEN set_spsr(c, psr_spsr_others(others, val,
                                     psr_spsr_flags(apply_flags, val, get_spsr(c))))
    ELSE psr_cpsr(apply_flags, others, val,
                  [c EXCEPT !.cpsr =
                      IF apply_flags
                      THEN Or32(And32(c.cpsr, W(\h0FFF, \hFFFF)), And32(val, W(\hF000, 0)))
                      ELSE c.cpsr])

psr_exec(c, mrs, psr, rd, apply_flags, others, val) ==
    IF mrs
    THEN IF psr THEN [c EXCEPT !.r[rd] = get_spsr(c)]
         ELSE [c EXCEPT !.r[rd] = c.cpsr]
    ELSE psr_msr(c, psr, apply_flags, others, val)

execute_arm_psr(c, m, opcode) ==
    R(IncPc(psr_exec(c, Bit(opcode, 21) = 1, Bit(opcode, 22) = 1, Field(opcode, 12, 4),
                     Bit(opcode, 16) = 1,
                     Bit(opcode, 17) = 1 \/ Bit(opcode, 18) = 1 \/ Bit(opcode, 19) = 1,
                     IF Bit(opcode, 25) = 1
                     THEN Ror32(W(0, Field(opcode, 0, 8)), Field(opcode, 8, 4) * 2)
                     ELSE c.r[Field(opcode, 0, 4)]),
            4),
      m, 1)

\* (x as i16 as i32 as u32), (x as i8 as i32 as u32)
SignExt16(h) == IF h >= 32768 THEN W(\hFFFF, h) ELSE W(0, h)

SignExt8(b) == IF b >= 128 THEN W(\hFFFF, \hFF00 + b) ELSE W(0, b)

load_store_halfword_writeback(c1, rn, writeback, pre_index, final_addr) ==
    IF writeback \/ ~pre_index THEN [c1 EXCEPT !.r[rn] = final_addr] ELSE c1

load_store_halfword_load(m, addr, is_signed, is_halfword) ==
    IF is_signed
    THEN IF is_halfword THEN SignExt16(read_half(m, addr))
         ELSE SignExt8(read_byte(m, addr))
    ELSE W(0, read_half(m, addr))

load_store_halfword_access(c, m, opcode, rn, rd, pre_index, addr, final_addr) ==
    IF Bit(opcode, 20) = 1
    THEN R(IncPc(load_store_halfword_writeback(
                     [c EXCEPT !.r[rd] =
                         load_store_halfword_load(m, addr, Bit(opcode, 6) = 1,
                                                  Bit(opcode, 5) = 1)],
                     rn, Bit(opcode, 21) = 1, pre_index, final_addr), 4),
           m, 1)
    ELSE R(IncPc(load_store_halfword_writeback(c, rn, Bit(opcode, 21) = 1, pre_index,
                                               final_addr), 4),
           write_half(m, addr, Lo(c.r[rd])), 1)

load_store_halfword_offset(c, m, opcode, rn, pre_index, offset) ==
    load_store_halfword_access(c, m, opcode, rn, Field(opcode, 12, 4), pre_index,
                               IF pre_index THEN Add32(c.r[rn], offset) ELSE c.r[rn],
                               Add32(c.r[rn], offset))

execute_arm_load_store_halfword(c, m, opcode) ==
    load_store_halfword_offset(c, m, opcode, Field(opcode, 16, 4), Bit(opcode, 24) = 1,
                               IF Bit(opcode, 22) = 1
                               THEN W(0, Field(opcode, 8, 4) * 16 + Field(opcode, 0, 4))
                               ELSE c.r[Field(opcode, 0, 4)])

execute_arm_bx(c, m, opcode) ==
    LET target == c.r[Field(opcode, 0, 4)]
    IN  R(set_pc(set_thumb_mode(c, Bit(target, 0) = 1), target), m, 2)

load_store_loaded(c, m, rn, rd, pre_index, addr, val) ==
    IF rd = 15
    THEN R(set_pc(c, And32(val, W(\hFFFF, \hFFFE))), m, 2)
    ELSE R(IncPc(IF ~pre_index THEN [c EXCEPT !.r[rd] = val, !.r[rn] = addr]
                 ELSE [c EXCEPT !.r[rd] = val], 4),
           m, 2)

load_store_access(c, m, rn, rd, load, byte, pre_index, addr) ==
    IF load
    THEN load_store_loaded(c, m, rn, rd, pre_index, addr,
                           IF byte THEN W(0, read_byte(m, addr)) ELSE read_word(m, addr))
    ELSE R(IncPc(IF ~pre_index THEN [c EXCEPT !.r[rn] = addr] ELSE c, 4),
           IF byte THEN write_byte(m, addr, Lo(c.r[rd]) % 256)
           ELSE write_word(m, addr, c.r[rd]),
           2)

execute_arm_load_store(c, m, opcode) ==
    load_store_access(c, m, Field(opcode, 16, 4), Field(opcode, 12, 4),
                      Bit(opcode, 20) = 1, Bit(opcode, 22) = 1, Bit(opcode, 24) = 1,
                      IF Bit(opcode, 23) = 1
                      THEN Add32(c.r[Field(opcode, 16, 4)], W(0, Field(opcode, 0, 12)))
                      ELSE Sub32(c.r[Field(opcode, 16, 4)], W(0, Field(opcode, 0, 12))))

load_store_register_loaded(c, rd, val) ==
    IF rd = 15 THEN set_pc(c, And32(val, W(\hFFFF, \hFFFE)))
    ELSE [c EXCEPT !.r[rd] = val]

load_store_register_writeback(c1, rn, writeback, addr) ==
    IF writeback THEN [c1 EXCEPT !.r[rn] = addr] ELSE c1

load_store_register_access(c, m, rn, rd, load, byte, writeback, addr) ==
    IF load
    THEN R(IncPc(load_store_register_writeback(
                     load_store_register_loaded(c, rd,
                         IF byte THEN W(0, read_byte(m, addr)) ELSE read_word(m, addr)),
                     rn, writeback, addr), 4),
           m, 2)
    ELSE R(IncPc(load_store_register_writeback(c, rn, writeback, addr), 4),
           IF byte THEN write_byte(m, addr, Lo(c.r[rd]) % 256)
           ELSE write_word(m, addr, c.r[rd]),
           2)

load_store_register_offset(c, m, opcode, rn, offset) ==
    load_store_register_access(c, m, rn, Field(opcode, 12, 4), Bit(opcode, 20) = 1,
                               Bit(opcode, 22) = 1, Bit(opcode, 21) = 1,
                               IF Bit(opcode, 23) = 1 THEN Add32(c.r[rn], offset)
                               ELSE Sub32(c.r[rn], offset))

load_store_register_shift(val, shift_type, shift_amount) ==
    CASE shift_type = 0 -> Shl32(val, shift_amount)
      [] shift_type = 1 -> Shr32(val, shift_amount)
      [] shift_type = 2 -> Asr32(val, shift_amount)
      [] shift_type = 3 -> Ror32(val, shift_amount)

execute_arm_load_store_register(c, m, opcode) ==
    load_store_register_offset(c, m, opcode, Field(opcode, 16, 4),
                               load_store_register_shift(c.r[Field(opcode, 0, 4)],
                                                         Field(opcode, 5, 2),
                                                         Field(opcode, 7, 5)))

RECURSIVE count_ones(_)
count_ones(n) == IF n = 0 THEN 0 ELSE (n % 2) + count_ones(n \div 2)

\* the register loop of a block transfer, from register reg_idx on
RECURSIVE BlockLoop(_, _, _, _, _, _)
BlockLoop(c, m, reg_list, load, addr, reg_idx) ==
    IF reg_idx = 16 THEN [cpu |-> c, mem |-> m, addr |-> addr]
    ELSE IF (reg_list \div 2^reg_idx) % 2 = 0
    THEN BlockLoop(c, m, reg_list, load, addr, reg_idx + 1)
    ELSE IF load
    THEN BlockLoop([c EXCEPT !.r[reg_idx] = read_word(m, addr)], m, reg_list, load,
                   Add32(addr, U(4)), reg_idx + 1)
    ELSE BlockLoop(c, write_word(m, addr, c.r[reg_idx]), reg_list, load,
                   Add32(addr, U(4)), reg_idx + 1)

block_data_transfer_finish(c3, m3, load_pc) ==
    IF load_pc
    THEN IF Bit(c3.r[15], 0) = 1
         THEN R(set_pc(set_thumb_mode(c3, TRUE), c3.r[15]), m3, 3)
         ELSE R(set_pc(c3, c3.r[15]), m3, 3)
    ELSE R(IncPc(c3, 4), m3, 3)

block_data_transfer_writeback(c2, addr, rn, reg_count, pre_index, add_to_base, writeback) ==
    IF add_to_base /\ writeback
    THEN IF ~pre_index THEN [c2 EXCEPT !.r[rn] = addr]
         ELSE [c2 EXCEPT !.r[rn] = Add32(c2.r[rn], U(reg_count * 4))]
    ELSE IF ~add_to_base /\ writeback /\ pre_index
    THEN [c2 EXCEPT !.r[rn] = Sub32(c2.r[rn], U(reg_count * 4))]
    ELSE c2

block_data_transfer_after(looped, opcode, rn, reg_list) ==
    block_data_transfer_finish(
        block_data_transfer_writeback(looped.cpu, looped.addr, rn, count_ones(reg_list),
                                      Bit(opcode, 24) = 1, Bit(opcode, 23) = 1,
                                      Bit(opcode, 21) = 1),
        looped.mem,
        Bit(opcode, 20) = 1 /\ (reg_list \div 2^15) % 2 = 1)

block_data_transfer_loop(c, m, opcode, rn, reg_list, start) ==
    block_data_transfer_after(
        BlockLoop(IF ~(Bit(opcode, 24) = 1) /\ Bit(opcode, 21) = 1
                  THEN [c EXCEPT !.r[rn] = start] ELSE c,
                  m, reg_list, Bit(opcode, 20) = 1, start, 0),
        opcode, rn, reg_list)

execute_arm_block_data_transfer(c, m, opcode) ==
    block_data_transfer_loop(c, m, opcode, Field(opcode, 16, 4), Field(opcode, 0, 16),
                             IF ~(Bit(opcode, 23) = 1)
                             THEN Sub32(c.r[Field(opcode, 16, 4)],
                                        U(count_ones(Field(opcode, 0, 16)) * 4))
                             ELSE c.r[Field(opcode, 16, 4)])

\* u32 division and remainder (r0 / r1, r0 % r1), one quotient bit per level
RECURSIVE DivLoop(_, _, _, _, _)
DivLoop(n, d, i, q, rem) ==
    IF i < 0 THEN [q |-> q, rem |-> rem]
    ELSE LET shifted == Or32(Shl32(rem, 1), W(0, Bit(n, i)))
             fits == SNeg(rem) \/ ~ULt(shifted, d)
         IN  IF fits
             THEN DivLoop(n, d, i - 1, Or32(q, Shl32(U(1), i)), Sub32(shifted, d))
             ELSE DivLoop(n, d, i - 1, q, shifted)

\* a divisor below 2^15 divides the two halves of n one after the other; a
\* larger one leaves a quotient below 2^17, whose bits 16..0 the loop finds
\* from the remainder n >> 17
DivShort(n, d) ==
    LET t == (Hi(n) % d) * 65536 + Lo(n)
    IN  [q |-> W(Hi(n) \div d, t \div d), rem |-> U(t % d)]

DivWords(n, d) ==
    IF Hi(d) = 0 /\ Lo(d) < 32768
    THEN DivShort(n, Lo(d))
    ELSE DivLoop(n, d, 16, Zero, Shr32(n, 17))

UDiv32(n, d) == DivWords(n, d).q

URem32(n, d) == DivWords(n, d).rem

\* k * k for a 16-bit k, as a word
Square16(k) == Add32(U((k % 256) * k), Shl32(U((k \div 256) * k), 8))

\* (r0 as f64).sqrt() as u32: the largest k with k * k <= r0
RECURSIVE SqrtLoop(_, _, _)
SqrtLoop(x, k, i) ==
    IF i < 0 THEN k
    ELSE IF ULe(Square16(k + 2^i), x) THEN SqrtLoop(x, k + 2^i, i - 1)
    ELSE SqrtLoop(x, k, i - 1)

Sqrt32(x) == W(0, SqrtLoop(x, 0, 15))

BiosDiv(c) ==
    IF c.r[1] # Zero
    THEN [c EXCEPT !.r[0] = UDiv32(c.r[0], c.r[1]), !.r[3] = URem32(c.r[0], c.r[1]),
                   !.r[15] = c.r[14]]
    ELSE [c EXCEPT !.r[0] = W(\hFFFF, \hFFFF), !.r[3] = c.r[0], !.r[15] = c.r[14]]

\* the exception entry taken when a BIOS is loaded: sv is the Cpu in
\* Supervisor mode with the SPSR saved
swi_vector(sv) ==
    set_interrupts_enabled([set_lr(sv, sv.r[15]) EXCEPT !.r[15] = U(8)], FALSE)

swi_call(c, m, swi_func) ==
    CASE swi_func = 0 -> set_pc(reset(c), W(\h0800, 0))
      [] swi_func \in 1..5 -> [c EXCEPT !.r[15] = c.r[14]]
      [] swi_func = 6 \/ swi_func = 8 -> BiosDiv(c)
      [] swi_func = 14 -> [c EXCEPT !.r[0] = Sqrt32(c.r[0]), !.r[15] = c.r[14]]
      [] OTHER -> IF has_bios(m)
                  THEN swi_vector(set_spsr(set_mode(c, Supervisor), c.cpsr))
                  ELSE [c EXCEPT !.r[15] = c.r[14]]

swi_checked(c, res) == IF ULt(c.r[14], U(4)) THEN Overflowed(res) ELSE res

execute_arm_swi(c, m) ==
    swi_checked(c, R(swi_call(c, m, Field(read_word(m, Sub32(c.r[14], U(4))), 0, 24)),
                     m, 6))

\* execute_arm_branch with the offset taken from the address of the branch
execute_arm_branch_from_pc(c, m, opcode, instruction_pc) ==
    LET imm24 == Field(opcode, 0, 24)
        offset_imm == W(imm24 \div 65536, imm24 % 65536)
        offset == IF Bit(opcode, 23) = 1
                  THEN Shl32(Or32(offset_imm, W(\hFF00, 0)), 2)
                  ELSE Shl32(offset_imm, 2)
        link == Bit(opcode, 24) = 1
        c1 == IF link THEN set_lr(c, Add32(instruction_pc, U(4))) ELSE c
        target == Add32(instruction_pc, offset)
    IN  IF Field(opcode, 24, 4) = 15
        THEN execute_arm_swi(c, m)
        ELSE R(set_pc(c1, target), m, 2)

execute_arm_branch(c, m, opcode, instruction_pc) ==
    LET imm24 == Field(opcode, 0, 24)
        offset_imm == W(imm24 \div 65536, imm24 % 65536)
        offset == IF Bit(opcode, 23) = 1
                  THEN Shl32(Or32(offset_imm, W(\hFF00, 0)), 2)
                  ELSE Shl32(offset_imm, 2)
        link == Bit(opcode, 24) = 1
        c1 == IF link THEN set_lr(c, Add32(instruction_pc, U(4))) ELSE c
        target == Add32(Add32(instruction_pc, U(8)), offset)
    IN  IF Field(opcode, 24, 4) = 15
        THEN execute_arm_swi(c, m)
        ELSE R(set_pc(c1, target), m, 2)

execute_arm_with_pc(c, m, opcode, instruction_pc) ==
    LET cond == Field(opcode, 28, 4)
        category == Field(opcode, 26, 2)
        bits_27_25 == Field(opcode, 25, 3)
        is_bx == And32(opcode, W(\h0FFF, \hFFF0)) = W(\h012F, \hFF10)
        is_psr == And32(opcode, W(\h0FB0, 0)) = W(\h0100, 0)
        is_swp == And32(opcode, W(\h00F0, \hFFF0)) = W(0, \h00B0)
                  \/ And32(opcode, W(\h00F0, \hFFF0)) = W(0, \hF0B0)
    IN  IF ~check_condition(c, cond) THEN R(IncPc(c, 4), m, 1)
        ELSE CASE category = 0 ->
                    IF is_bx THEN execute_arm_bx(c, m, opcode)
                    ELSE IF bits_27_25 = 0 /\ Field(opcode, 4, 4) # 9
                    THEN IF Bit(opcode, 5) = 1 \/ Bit(opcode, 6) = 1
                         THEN execute_arm_load_store_halfword(c, m, opcode)
                         ELSE IF is_swp THEN execute_arm_load_store(c, m, opcode)
                         ELSE IF is_psr THEN execute_arm_psr(c, m, opcode)
                         ELSE execute_arm_data_processing(c, m, opcode)
                    ELSE IF is_psr THEN execute_arm_psr(c, m, opcode)
                    ELSE execute_arm_data_processing(c, m, opcode)
               [] category = 1 -> execute_arm_load_store(c, m, opcode)
               [] category = 2 ->
                    IF bits_27_25 = 5 THEN execute_arm_branch(c, m, opcode, instruction_pc)
                    ELSE IF bits_27_25 = 4 THEN execute_arm_block_data_transfer(c, m, opcode)
                    ELSE execute_arm_load_store_register(c, m, opcode)
               [] category = 3 -> execute_arm_branch(c, m, opcode, instruction_pc)

\* a three-slot prefetch array, indexed 0..2 as in the source
Slots(a, b, d) == [i \in 0..2 |-> IF i = 0 THEN a ELSE IF i = 1 THEN b ELSE d]

\* advance the pipeline after the instruction: refill the last slot when the
\* instruction only stepped PC by 4, flush otherwise
step_arm_advance(c2, m2, pc_at_execution, next_pc) ==
    IF c2.r[15] = Add32(pc_at_execution, U(4))
    THEN [c2 EXCEPT !.pipeline_pc[2] = next_pc,
                    !.pipeline[2] = read_word(m2, next_pc),
                    !.r[15] = next_pc]
    ELSE [c2 EXCEPT !.pipeline_loaded = FALSE]

step_arm_finish(res, c0) ==
    [cpu |-> step_arm_advance(res.cpu, res.mem, c0.r[15],
                              Add32(res.cpu.pipeline_pc[1], U(4))),
     mem |-> res.mem, cycles |-> res.cycles, panic |-> res.panic,
     executed |-> c0.pipeline_pc[0], opcode |-> c0.pipeline[0]]

\* c0: the Cpu with the pipeline filled
step_arm_execute(c0, m) ==
    step_arm_finish(
        execute_arm_with_pc(
            [c0 EXCEPT
                !.pipeline = Slots(c0.pipeline[1], c0.pipeline[2], c0.pipeline[2]),
                !.pipeline_pc = Slots(c0.pipeline_pc[1], c0.pipeline_pc[2],
                                      c0.pipeline_pc[2])],
            m, c0.pipeline[0], c0.pipeline_pc[0]),
        c0)

step_arm_fill(c, m, pc, pc1, pc2) ==
    [c EXCEPT !.pipeline_pc = Slots(pc, pc1, pc2),
              !.pipeline = Slots(read_word(m, pc), read_word(m, pc1), read_word(m, pc2)),
              !.r[15] = pc2,
              !.pipeline_loaded = TRUE]

step_arm(c, m) ==
    step_arm_execute(IF ~c.pipeline_loaded
                     THEN step_arm_fill(c, m, c.r[15], Add32(c.r[15], U(4)),
                                        Add32(Add32(c.r[15], U(4)), U(4)))
                     ELSE c,
                     m)

(***************************************************************************)
(* cpu.rs: the halfword (Thumb) instruction engine.  An opcode is a u16,   *)
(* held as a number in 0..65535.                                           *)
(***************************************************************************)
TF(opcode, k, n) == (opcode \div 2^k) % 2^n

SetNZ(c, result) == set_flag_z(set_flag_n(c, SNeg(result)), result = Zero)

AddV(a, b, result) ==
    (SPos(a) /\ SPos(b) /\ SNeg(result)) \/ (SNeg(a) /\ SNeg(b) /\ SPos(result))

SubV(a, b, result) == SLt(a, b) # SNeg(result)

\* carry out and value of the three shifts shared by the Thumb shift forms
LslCarry(c, val, shift) ==
    IF shift # 0
    THEN (IF 32 - shift <= 31 THEN Bit(val, 32 - shift) = 1 ELSE FALSE)
    ELSE get_flag_c(c)

LslValue(val, shift) == IF shift < 32 THEN Shl32(val, shift) ELSE Zero

LsrCarry(c, val, shift) ==
    IF shift # 0 THEN Bit(val, shift - 1) = 1 ELSE get_flag_c(c)

LsrValue(val, shift) == IF shift < 32 THEN Shr32(val, shift) ELSE Zero

AsrCarry(c, val, shift) ==
    IF shift # 0 THEN Bit(Asr32(val, shift - 1), 0) = 1 ELSE get_flag_c(c)

AsrValue(val, shift) == Asr32(val, IF shift < 31 THEN shift ELSE 31)

Min(a, b) == IF a < b THEN a ELSE b

thumb_shift_register(c, m, opcode) ==
    LET op == TF(opcode, 11, 2)
        rm == TF(opcode, 3, 3)
        rd == TF(opcode, 0, 3)
        offset == TF(opcode, 6, 5)
        val == c.r[rm]
        shift == Min(offset, 32)
        c1 == CASE op = 0 -> set_flag_c(c, LslCarry(c, val, shift))
                [] op = 1 -> set_flag_c(c, LsrCarry(c, val, shift))
                [] op = 2 -> set_flag_c(c, AsrCarry(c, val, shift))
                [] OTHER -> c
        result == CASE op = 0 -> LslValue(val, shift)
                    [] op = 1 -> LsrValue(val, shift)
                    [] op = 2 -> AsrValue(val, shift)
                    [] OTHER -> val
    IN  R(IncPc(SetNZ([c1 EXCEPT !.r[rd] = result], result), 2), m, 1)

thumb_add_sub_imm(c, m, opcode) ==
    LET op == TF(opcode, 9, 2)
        rn == TF(opcode, 6, 3)
        rd == TF(opcode, 0, 3)
        imm == W(0, TF(opcode, 3, 3))
        rn_val == c.r[rn]
        after ==
            CASE op = 0 ->
                    LET result == Add32(rn_val, imm)
                    IN  set_flag_v(set_flag_c(SetNZ([c EXCEPT !.r[rd] = result], result),
                                              AddCarry(rn_val, imm)),
                                   AddV(rn_val, imm, result))
              [] op = 1 ->
                    LET result == Sub32(rn_val, imm)
                    IN  set_flag_v(set_flag_c(SetNZ([c EXCEPT !.r[rd] = result], result),
                                              ~SubBorrow(rn_val, imm)),
                                   SubV(rn_val, imm, result))
              [] op = 2 ->
                    LET result == Add32(imm, imm)
                    IN  set_flag_c(SetNZ([c EXCEPT !.r[rd] = result], result),
                                   AddCarry(imm, imm))
              [] op = 3 ->
                    LET result == Sub32(imm, imm)
                    IN  set_flag_c(SetNZ([c EXCEPT !.r[rd] = result], result),
                                   ~SubBorrow(imm, imm))
    IN  R(IncPc(after, 2), m, 1)

thumb_data_proc_imm(c, m, opcode) ==
    LET op == TF(opcode, 11, 2)
        rd == TF(opcode, 8, 3)
        imm == W(0, TF(opcode, 0, 8))
        rd_val == c.r[rd]
        after ==
            CASE op = 0 -> SetNZ([c EXCEPT !.r[rd] = imm], imm)
              [] op = 1 ->
                    LET result == Sub32(rd_val, imm)
                    IN  set_flag_v(set_flag_c(SetNZ(c, result), ~SubBorrow(rd_val, imm)),
                                   SubV(rd_val, imm, result))
              [] op = 2 ->
                    LET result == Add32(rd_val, imm)
                    IN  set_flag_v(set_flag_c(SetNZ([c EXCEPT !.r[rd] = result], result),
                                              AddCarry(rd_val, imm)),
                                   AddV(rd_val, imm, result))
              [] op = 3 ->
                    LET result == Sub32(rd_val, imm)
                    IN  set_flag_v(set_flag_c(SetNZ([c EXCEPT !.r[rd] = result], result),
                                              ~SubBorrow(rd_val, imm)),
                                   SubV(rd_val, imm, result))
    IN  R(IncPc(after, 2), m, 1)

\* a.wrapping_mul(b), by 16 x 8 bit partial products
Mul16(a, b) == Add32(U((a % 256) * b), Shl32(U((a \div 256) * b), 8))

Mul32(a, b) ==
    Add32(Mul16(Lo(a), Lo(b)),
          W((Lo(Mul16(Hi(a), Lo(b))) + Lo(Mul16(Lo(a), Hi(b)))) % 65536, 0))

thumb_data_proc_reg(c, m, opcode) ==
    LET op == TF(opcode, 6, 4)
        rms == TF(opcode, 3, 3)
        rds == TF(opcode, 0, 3)
        rm_val == c.r[rms]
        rd_val == c.r[rds]
        shift == Min(Lo(rm_val) % 256, 32)
        Wr(result) == SetNZ([c EXCEPT !.r[rds] = result], result)
        WrC(result, carry) ==
            SetNZ([set_flag_c(c, carry) EXCEPT !.r[rds] = result], result)
        carry_in == IF get_flag_c(c) THEN U(1) ELSE U(0)
        after ==
            CASE op = 0 -> Wr(And32(rd_val, rm_val))
              [] op = 1 -> Wr(Xor32(rd_val, rm_val))
              [] op = 2 -> WrC(LslValue(rd_val, shift), LslCarry(c, rd_val, shift))
              [] op = 3 -> WrC(LsrValue(rd_val, shift), LsrCarry(c, rd_val, shift))
              [] op = 4 -> WrC(AsrValue(rd_val, shift), AsrCarry(c, rd_val, shift))
              [] op = 5 ->
                    LET result1 == Add32(rd_val, rm_val)
                        result == Add32(result1, carry_in)
                    IN  WrC(result, AddCarry(rd_val, rm_val) \/ AddCarry(result1, carry_in))
              [] op = 6 ->
                    LET result1 == Sub32(rd_val, rm_val)
                        sub == Sub32(carry_in, U(1))
                        result == Sub32(result1, sub)
                    IN  WrC(result, SubBorrow(rd_val, rm_val) \/ SubBorrow(result1, sub))
              [] op = 7 ->
                    LET rot == (Lo(rm_val) % 256) % 32
                    IN  WrC(Ror32(rd_val, rot), LsrCarry(c, rd_val, rot))
              [] op = 8 -> SetNZ(c, And32(rd_val, rm_val))
              [] op = 9 ->
                    LET result == Sub32(Zero, rm_val)
                    IN  set_flag_v(WrC(result, SubBorrow(Zero, rm_val)),
                                   rm_val = W(\h8000, 0))
              [] op = 10 ->
                    LET result == Sub32(rd_val, rm_val)
                    IN  set_flag_v(set_flag_c(SetNZ(c, result), ~SubBorrow(rd_val, rm_val)),
                                   SubV(rd_val, rm_val, result))
              [] op = 11 ->
                    set_flag_c(SetNZ(c, Add32(rd_val, rm_val)), AddCarry(rd_val, rm_val))
              [] op = 12 -> Wr(Or32(rd_val, rm_val))
              [] op = 13 -> Wr(Mul32(rd_val, rm_val))
              [] op = 14 -> Wr(And32(rd_val, Not32(rm_val)))
              [] op = 15 -> Wr(Not32(rm_val))
        Finish(res) == IF op = 6 /\ ~get_flag_c(c) THEN Overflowed(res) ELSE res
    IN  Finish(R(IncPc(after, 2), m, 1))

thumb_hi_reg_ops(c, m, opcode) ==
    LET op == TF(opcode, 8, 2)
        hd == TF(opcode, 7, 1) = 1
        hsr == TF(opcode, 6, 1) = 1
        rd == TF(opcode, 0, 3) + (IF hd THEN 8 ELSE 0)
        rs == TF(opcode, 3, 3) + (IF hsr THEN 8 ELSE 0)
        after ==
            CASE op = 0 ->
                    LET result == Add32(c.r[rd], c.r[rs])
                        c1 == [c EXCEPT !.r[rd] = result]
                    IN  IF ~hd \/ ~hsr
                        THEN set_flag_v(set_flag_c(SetNZ(c1, result),
                                                   AddCarry(c.r[rd], c.r[rs])),
                                        AddV(c1.r[rd], c1.r[rs], result))
                        ELSE c1
              [] op = 1 ->
                    LET result == Sub32(c.r[rd], c.r[rs])
                    IN  set_flag_v(set_flag_c(SetNZ(c, result), ~SubBorrow(c.r[rd], c.r[rs])),
                                   SubV(c.r[rd], c.r[rs], result))
              [] op = 2 ->
                    LET c1 == [c EXCEPT !.r[rd] = c.r[rs]]
                    IN  IF ~hd \/ ~hsr THEN SetNZ(c1, c1.r[rs]) ELSE c1
              [] op = 3 -> c
        target == c.r[rs]
    IN  IF op = 3
        THEN R(set_pc(set_thumb_mode(c, Bit(target, 0) = 1), target), m, 2)
        ELSE R(IncPc(after, 2), m, 1)

thumb_load_pc_rel(c, m, opcode) ==
    R(IncPc([c EXCEPT !.r[TF(opcode, 8, 3)] =
                read_word(m, Add32(And32(c.r[15], W(\hFFFF, \hFFFC)),
                                   U(TF(opcode, 0, 8) * 4)))], 2),
      m, 2)

load_store_reg_offset_access(c, m, rd, byte, addr) ==
    R(IncPc([c EXCEPT !.r[rd] =
                IF byte THEN W(0, read_byte(m, addr)) ELSE read_word(m, addr)], 2),
      m, 2)

thumb_load_store_reg_offset(c, m, opcode, byte) ==
    load_store_reg_offset_access(c, m, TF(opcode, 0, 3), byte,
                                 Add32(c.r[TF(opcode, 3, 3)], c.r[TF(opcode, 6, 3)]))

load_store_word_byte_access(c, m, rd, byte, load, addr) ==
    IF load
    THEN R(IncPc([c EXCEPT !.r[rd] =
                     IF byte THEN W(0, read_byte(m, addr)) ELSE read_word(m, addr)], 2),
           m, 2)
    ELSE R(IncPc(c, 2),
           IF byte THEN write_byte(m, addr, Lo(c.r[rd]) % 256)
           ELSE write_word(m, addr, c.r[rd]),
           2)

thumb_load_store_word_byte(c, m, opcode, load) ==
    load_store_word_byte_access(c, m, TF(opcode, 0, 3), TF(opcode, 12, 1) = 1, load,
                                Add32(c.r[TF(opcode, 3, 3)], U(TF(opcode, 6, 5) * 4)))

load_store_halfword_thumb_access(c, m, rd, load, addr) ==
    IF load
    THEN R(IncPc([c EXCEPT !.r[rd] = W(0, read_half(m, addr))], 2), m, 2)
    ELSE R(IncPc(c, 2), write_half(m, addr, Lo(c.r[rd])), 2)

thumb_load_store_halfword(c, m, opcode, load) ==
    load_store_halfword_thumb_access(c, m, TF(opcode, 0, 3), load,
                                     Add32(c.r[TF(opcode, 3, 3)], U(TF(opcode, 6, 5) * 2)))

load_store_sp_rel_access(c, m, rd, load, addr) ==
    IF load
    THEN R(IncPc([c EXCEPT !.r[rd] = read_word(m, addr)], 2), m, 2)
    ELSE R(IncPc(c, 2), write_word(m, addr, c.r[rd]), 2)

thumb_load_store_sp_rel(c, m, opcode, load) ==
    load_store_sp_rel_access(c, m, TF(opcode, 8, 3), load,
                             Add32(c.r[13], U(TF(opcode, 0, 8) * 4)))

thumb_load_addr(c, m, opcode) ==
    LET rd == TF(opcode, 8, 3)
        offset == U(TF(opcode, 0, 8) * 4)
        sp == TF(opcode, 11, 1) = 1
        base == IF sp THEN c.r[13] ELSE And32(c.r[15], W(\hFFFF, \hFFFC))
    IN  R(IncPc([c EXCEPT !.r[rd] = Add32(base, offset)], 2), m, 1)

thumb_add_sp(c, m, opcode) ==
    LET offset == U(TF(opcode, 0, 7) * 4)
        sign == TF(opcode, 7, 1) = 1
        sp == IF sign THEN Sub32(c.r[13], offset) ELSE Add32(c.r[13], offset)
    IN  R(IncPc([c EXCEPT !.r[13] = sp], 2), m, 1)

\* for i in 0..8, ascending: load r[i] from, or store r[i] to, successive words
RECURSIVE LowRegsUp(_, _, _, _, _, _)
LowRegsUp(c, m, reg_list, load, addr, i) ==
    IF i = 8 THEN [cpu |-> c, mem |-> m, addr |-> addr]
    ELSE IF (reg_list \div 2^i) % 2 = 0 THEN LowRegsUp(c, m, reg_list, load, addr, i + 1)
    ELSE IF load
    THEN LowRegsUp([c EXCEPT !.r[i] = read_word(m, addr)], m, reg_list, load,
                   Add32(addr, U(4)), i + 1)
    ELSE LowRegsUp(c, write_word(m, addr, c.r[i]), reg_list, load,
                   Add32(addr, U(4)), i + 1)

\* for i in (0..8).rev(): pre-decrement, then store r[i]
RECURSIVE LowRegsDown(_, _, _, _, _)
LowRegsDown(c, m, reg_list, addr, i) ==
    IF i < 0 THEN [cpu |-> c, mem |-> m, addr |-> addr]
    ELSE IF (reg_list \div 2^i) % 2 = 0 THEN LowRegsDown(c, m, reg_list, addr, i - 1)
    ELSE LowRegsDown(c, write_word(m, Sub32(addr, U(4)), c.r[i]), reg_list,
                     Sub32(addr, U(4)), i - 1)

push_pop_popped(m, popped, pc_lr) ==
    IF pc_lr
    THEN [popped.cpu EXCEPT
            !.r[15] = And32(read_word(m, popped.addr), W(\hFFFF, \hFFFE)),
            !.r[13] = Add32(popped.addr, U(4))]
    ELSE [popped.cpu EXCEPT !.r[13] = popped.addr]

push_pop_pushed(pushed, cycles) ==
    R(IncPc([pushed.cpu EXCEPT !.r[13] = pushed.addr], 2), pushed.mem, cycles)

push_pop_push(c, m, reg_list, pc_lr, addr0, cycles) ==
    push_pop_pushed(LowRegsDown(c, IF pc_lr THEN write_word(m, addr0, c.r[14]) ELSE m,
                                reg_list, addr0, 7),
                    cycles)

push_pop_exec(c, m, load, reg_list, pc_lr, cycles) ==
    IF load
    THEN R(IncPc(push_pop_popped(m, LowRegsUp(c, m, reg_list, TRUE, c.r[13], 0), pc_lr),
                 2),
           m, cycles)
    ELSE push_pop_push(c, m, reg_list, pc_lr,
                       IF pc_lr THEN Sub32(c.r[13], U(4)) ELSE c.r[13], cycles)

thumb_push_pop(c, m, opcode, load) ==
    push_pop_exec(c, m, load, TF(opcode, 0, 8), TF(opcode, 8, 1) = 1,
                  count_ones(TF(opcode, 0, 8)) + (IF TF(opcode, 8, 1) = 1 THEN 1 ELSE 0))

load_store_multiple_writeback(looped, rb, reg_list) ==
    R(IncPc(IF (reg_list \div 2^rb) % 2 = 0
            THEN [looped.cpu EXCEPT !.r[rb] = looped.addr]
            ELSE looped.cpu, 2),
      looped.mem, count_ones(reg_list))

thumb_load_store_multiple(c, m, opcode, load) ==
    load_store_multiple_writeback(
        LowRegsUp(c, m, TF(opcode, 0, 8), load, c.r[TF(opcode, 8, 3)], 0),
        TF(opcode, 8, 3), TF(opcode, 0, 8))

thumb_branch_cond(c, m, opcode, instruction_pc) ==
    LET cond == TF(opcode, 8, 4)
        offset == Shl32(SignExt8(opcode % 256), 1)
        target == Add32(Add32(instruction_pc, offset), U(2))
    IN  IF check_condition(c, cond) THEN R(set_pc(c, target), m, 1)
        ELSE R(IncPc(c, 2), m, 1)

thumb_swi_div(div) == [div EXCEPT !.r[15] = Or32(div.r[14], U(1))]

thumb_swi_call(c, m, swi_num, back) ==
    CASE swi_num = U(0) -> [reset(c) EXCEPT !.r[15] = W(\h0800, \h0001)]
      [] swi_num \in {U(1), U(2), U(3), U(4), U(5)} -> [c EXCEPT !.r[15] = back]
      [] swi_num \in {U(6), U(8)} -> thumb_swi_div(BiosDiv(c))
      [] swi_num = U(14) -> [c EXCEPT !.r[0] = Sqrt32(c.r[0]), !.r[15] = back]
      [] OTHER -> IF has_bios(m)
                  THEN swi_vector(set_spsr(set_mode(c, Supervisor), c.cpsr))
                  ELSE [c EXCEPT !.r[15] = back]

thumb_software_interrupt(c, m) ==
    R(thumb_swi_call(c, m, c.r[7], Or32(c.r[14], U(1))), m, 4)

thumb_branch(c, m, opcode, instruction_pc) ==
    LET shifted == (opcode * 32) % 65536
        offset16 == (shifted \div 16) + (IF shifted >= 32768 THEN \hF000 ELSE 0)
        target == Add32(Add32(instruction_pc, SignExt16(offset16)), U(2))
    IN  R(set_pc(c, target), m, 1)

thumb_bl_prefix(c, m, opcode) ==
    LET s_bit == TF(opcode, 10, 1)
        imm10 == TF(opcode, 0, 10)
        offset_high == U(s_bit * 2^22 + imm10 * 2^12)
    IN  R(IncPc([c EXCEPT !.r[14] = offset_high], 2), m, 1)

thumb_bl_suffix(c, m, opcode) ==
    LET h_bit == TF(opcode, 12, 1)
        s_bit2 == TF(opcode, 11, 1)
        imm11 == TF(opcode, 0, 11)
        offset_high == c.r[14]
        offset_low == U(imm11 * 2 + s_bit2 * 2^11)
        sum == Add32(offset_high, offset_low)
        offset == IF Bit(sum, 22) = 1 THEN Or32(sum, W(\hFFC0, 0)) ELSE sum
        c1 == [c EXCEPT !.r[14] = Or32(Add32(c.r[15], U(2)), U(1))]
        target == Add32(Add32(c.r[15], U(2)), offset)
    IN  IF h_bit = 1
        THEN R(set_pc(set_thumb_mode(c1, FALSE), And32(target, W(\hFFFF, \hFFFC))), m, 1)
        ELSE R(set_pc(c1, Or32(target, U(1))), m, 1)

execute_thumb(c, m, opcode, instruction_pc) ==
    LET category == TF(opcode, 13, 3)
        top == (opcode \div 2048) * 2048
        op_11 == TF(opcode, 11, 2)
        op_10 == TF(opcode, 10, 2)
    IN  CASE category = 0 ->
                IF top \in {\h0000, \h0800, \h1000, \h1800}
                THEN thumb_shift_register(c, m, opcode)
                ELSE thumb_add_sub_imm(c, m, opcode)
          [] category = 1 -> thumb_data_proc_imm(c, m, opcode)
          [] category = 2 ->
                IF TF(opcode, 6, 4) <= 9 THEN thumb_data_proc_reg(c, m, opcode)
                ELSE IF (opcode \div 1024) * 1024 = \h4400 THEN thumb_hi_reg_ops(c, m, opcode)
                ELSE thumb_load_pc_rel(c, m, opcode)
          [] category = 3 ->
                (CASE op_11 = 0 -> thumb_load_store_reg_offset(c, m, opcode, FALSE)
                   [] op_11 = 1 -> thumb_load_store_reg_offset(c, m, opcode, TRUE)
                   [] op_11 = 2 -> thumb_load_store_word_byte(c, m, opcode, FALSE)
                   [] op_11 = 3 -> thumb_load_store_word_byte(c, m, opcode, TRUE))
          [] category = 4 ->
                (CASE op_10 = 0 -> thumb_load_store_halfword(c, m, opcode, FALSE)
                   [] op_10 = 1 -> thumb_load_store_halfword(c, m, opcode, TRUE)
                   [] op_10 = 2 -> thumb_load_store_sp_rel(c, m, opcode, FALSE)
                   [] op_10 = 3 -> thumb_load_store_sp_rel(c, m, opcode, TRUE))
          [] category = 5 ->
                IF top = \hA000 THEN thumb_load_addr(c, m, opcode)
                ELSE IF (opcode \div 256) * 256 = \hB000 THEN thumb_add_sp(c, m, opcode)
                ELSE IF And16(opcode, \hF600) = \hB400
                THEN thumb_push_pop(c, m, opcode, TRUE)
                ELSE IF And16(opcode, \hF600) = \hBC00
                THEN thumb_push_pop(c, m, opcode, FALSE)
                ELSE IF And16(opcode, \hF000) = \hC000
                THEN thumb_load_store_multiple(c, m, opcode, TRUE)
                ELSE IF And16(opcode, \hF000) = \hD000
                THEN thumb_load_store_multiple(c, m, opcode, FALSE)
                ELSE R(c, m, 1)
          [] category = 6 ->
                IF And16(opcode, \hF000) = \hD000
                THEN thumb_branch_cond(c, m, opcode, instruction_pc)
                ELSE IF And16(opcode, \hFF00) = \hDF00
                THEN thumb_software_interrupt(c, m)
                ELSE thumb_branch(c, m, opcode, instruction_pc)
          [] category = 7 ->
                IF TF(opcode, 11, 5) \in {30, 31}
                THEN IF top = \hF000 THEN thumb_bl_prefix(c, m, opcode)
                     ELSE thumb_bl_suffix(c, m, opcode)
                ELSE R(c, m, 1)

\* advance the pipeline after the instruction: refill the last slot when the
\* instruction only stepped PC by 2, flush otherwise
step_thumb_advance(c2, m2, pc_at_execution) ==
    IF c2.r[15] = Add32(pc_at_execution, U(2))
    THEN [c2 EXCEPT !.pipeline_pc[2] = c2.r[15],
                    !.pipeline[2] = W(0, read_half(m2, c2.r[15])),
                    !.r[15] = Add32(c2.r[15], U(2))]
    ELSE [c2 EXCEPT !.pipeline_loaded = FALSE]

step_thumb_finish(res, c0) ==
    [cpu |-> step_thumb_advance(res.cpu, res.mem, c0.r[15]),
     mem |-> res.mem, cycles |-> res.cycles, panic |-> res.panic,
     executed |-> c0.pipeline_pc[0], opcode |-> W(0, Lo(c0.pipeline[0]))]

\* c0: the Cpu with the pipeline filled
step_thumb_execute(c0, m) ==
    step_thumb_finish(
        execute_thumb(
            [c0 EXCEPT
                !.pipeline = Slots(c0.pipeline[1], c0.pipeline[2], c0.pipeline[2]),
                !.pipeline_pc = Slots(c0.pipeline_pc[1], c0.pipeline_pc[2],
                                      c0.pipeline_pc[2])],
            m, Lo(c0.pipeline[0]), c0.pipeline_pc[0]),
        c0)

step_thumb_fill(c, m, pc, pc1, pc2) ==
    [c EXCEPT !.pipeline_pc = Slots(pc, pc1, pc2),
              !.pipeline = Slots(W(0, read_half(m, pc)), W(0, read_half(m, pc1)),
                                 W(0, read_half(m, pc2))),
              !.r[15] = Add32(pc2, U(2)),
              !.pipeline_loaded = TRUE]

step_thumb(c, m) ==
    step_thumb_execute(IF ~c.pipeline_loaded
                       THEN step_thumb_fill(c, m, c.r[15], Add32(c.r[15], U(2)),
                                            Add32(Add32(c.r[15], U(2)), U(2)))
                       ELSE c,
                       m)

\* Cpu::step
step(c, m) == IF is_thumb_mode(c) THEN step_thumb(c, m) ELSE step_arm(c, m)

(***************************************************************************)
(* ppu.rs (scanline timing) and lib.rs (Gba).                              *)
(***************************************************************************)
Ppu_new == [dispstat |-> 0, vcount |-> 0, hcounter |-> 0]

get_vcount(p) == p.vcount

set_vcount(p, count) == [p EXCEPT !.vcount = count]

set_hcounter(p, count) == [p EXCEPT !.hcounter = count]

is_in_vblank(p) == p.vcount >= 160

is_in_hblank(p) == p.hcounter >= 960

get_dispstat(p) ==
    LET stat1 == IF is_in_vblank(p) THEN Or16(p.dispstat, 1)
                 ELSE And16(p.dispstat, Not16(1))
    IN  IF is_in_hblank(p) THEN Or16(stat1, 2) ELSE And16(stat1, Not16(2))

step_vblank_check_result(old_vcount, p1) ==
    [ppu |-> p1, vblank_start |-> (old_vcount = 159 /\ p1.vcount = 160)]

step_vblank_check(p, cycles) ==
    step_vblank_check_result(
        p.vcount,
        IF p.hcounter + cycles >= 1232
        THEN [p EXCEPT !.hcounter = p.hcounter + cycles - 1232,
                       !.vcount = IF p.vcount + 1 >= 228 THEN 0 ELSE p.vcount + 1]
        ELSE [p EXCEPT !.hcounter = p.hcounter + cycles])

sync_ppu_to_mem_io(m, dispstat, vcount) ==
    [m EXCEPT !.io = Put(Put(Put(Put(m.io, 4, dispstat % 256), 5, dispstat \div 256),
                             6, vcount % 256),
                         7, vcount \div 256)]

sync_ppu_to_mem(m, p) == sync_ppu_to_mem_io(m, get_dispstat(p), get_vcount(p))

\* the PPU timing after the instruction, and the VBlank request
Gba_step_timing(res, timing, entered, c1) ==
    [cpu |-> res.cpu,
     mem |-> IF timing.vblank_start
             THEN [res.mem EXCEPT
                     !.interrupt = request(res.mem.interrupt, Interrupt_VBLANK)]
             ELSE res.mem,
     ppu |-> timing.ppu, entered |-> entered, entry_cpu |-> c1,
     executed |-> res.executed, opcode |-> res.opcode, panic |-> res.panic]

Gba_step_run(res, p, entered, c1) ==
    Gba_step_timing(res, step_vblank_check(p, res.cycles), entered, c1)

Gba_step_execute(c1, m1, p, entered) == Gba_step_run(step(c1, m1), p, entered, c1)

\* the interrupt check before the instruction
Gba_step_interrupts(c, m0, p, pending, entered) ==
    Gba_step_execute(IF entered THEN take_interrupt(c) ELSE c,
                     IF entered
                     THEN [m0 EXCEPT !.interrupt =
                             acknowledge(enter_interrupt(m0.interrupt), pending[2])]
                     ELSE m0,
                     p, entered)

Gba_step_synced(c, m0, p) ==
    Gba_step_interrupts(c, m0, p, get_pending(m0.interrupt),
                        should_take_interrupt(m0.interrupt)
                        /\ get_pending(m0.interrupt) # None)

\* Gba::step; entered tells whether the step performed interrupt entry
Gba_step(c, m, p) == Gba_step_synced(c, sync_ppu_to_mem(m, p), p)

\* Gba::new
Gba_new == [cpu |-> reset(Cpu_new), mem |-> Memory_new, ppu |-> Ppu_new]

(***************************************************************************)
(* Programs and images used as inputs.                                     *)
(***************************************************************************)
\* little-endian bytes of a sequence of words / of halfwords
RECURSIVE WordImage(_)
WordImage(ws) ==
    IF ws = <<>> THEN <<>>
    ELSE <<Lo(Head(ws)) % 256, Lo(Head(ws)) \div 256,
           Hi(Head(ws)) % 256, Hi(Head(ws)) \div 256>> \o WordImage(Tail(ws))

RECURSIVE HalfImage(_)
HalfImage(hs) ==
    IF hs = <<>> THEN <<>>
    ELSE <<Head(hs) % 256, Head(hs) \div 256>> \o HalfImage(Tail(hs))

\* eight ARM instructions, none of which writes R15:
\* MOV R0,#1; ADD R1,R0,#2; ADDS R2,R1,R0; MOV R3,R2; SUBS R3,R3,#1;
\* MOV R4,#5; ORR R4,R4,R3; MOV R0,R0
ArmStraightLine ==
    <<W(\hE3A0, \h0001), W(\hE280, \h1002), W(\hE091, \h2000), W(\hE1A0, \h3002),
      W(\hE253, \h3001), W(\hE3A0, \h4005), W(\hE184, \h4003), W(\hE1A0, \h0000)>>

\* sixteen Thumb instructions, none of which writes R15:
\* MOV R0,#1; ADD R1,#2; LSL R1,R1,#1; AND R0,R1; MOV R2,#3; SUB R2,#1;
\* MOV R8,R8; CMP R2,#2; then the same eight again
ThumbStraightLine ==
    <<\h2001, \h3102, \h0049, \h4008, \h2203, \h3A01, \h46C0, \h2A02,
      \h2001, \h3102, \h0049, \h4008, \h2203, \h3A01, \h46C0, \h2A02>>

\* a cartridge with the ARM run at 0x08000000 and the Thumb run at 0x08000020
StraightLineRom == WordImage(ArmStraightLine) \o HalfImage(ThumbStraightLine)

ThumbBase == W(\h0800, \h0020)

(***************************************************************************)
(* The state machine.  cpu, mem and ppu are the Gba's fields; obs records  *)
(* the last operation, its arguments and result, and the state before it.  *)
(***************************************************************************)
MaxSteps == 6

\* the bank a mode's R13/R14 live in: User and System share one, every other
\* mode has its own
BankOf(mode) == IF mode = User THEN System ELSE mode

\* sp_of and lr_of hold, per bank, the value last written to R13 and R14 in a
\* mode of that bank; fiq_regs and other_regs hold, per register R8-R12, the
\* value last written in FIQ mode and outside it; interrupted is the CPSR at
\* the last interrupt entry of a system step, entries the number of entries;
\* pre_mem is the Memory before the operation, cycles what a step returned
Obs0 ==
    [op |-> "new", arg |-> None, steps |-> 0,
     pre_cpu |-> reset(Cpu_new), pre_ic |-> InterruptController_new,
     ret |-> None, entered |-> FALSE, entry_cpu |-> reset(Cpu_new),
     executed |-> None, opcode |-> None, panic |-> FALSE,
     start |-> W(\h0800, 0), width |-> 4, trace |-> <<>>,
     sp_of |-> [b \in Modes |-> IF b = System THEN Some(W(\h0300, \h7F00)) ELSE None],
     lr_of |-> [b \in Modes |-> IF b = System THEN Some(W(\h0800, \h0004)) ELSE None],
     fiq_regs |-> [n \in 8..12 |-> None],
     other_regs |-> [n \in 8..12 |-> Some(Zero)],
     interrupted |-> None, entries |-> 0,
     pre_mem |-> Memory_new, cycles |-> None]

\* the record of an operation about to be applied to the current state
Rec(op, arg) ==
    [obs EXCEPT !.op = op, !.arg = arg, !.steps = obs.steps + 1,
                !.pre_cpu = cpu, !.pre_ic = mem.interrupt, !.pre_mem = mem,
                !.ret = None, !.cycles = None, !.entered = FALSE, !.entry_cpu = cpu,
                !.executed = None, !.opcode = None, !.panic = FALSE]

\* the record of an operation that does not count as a step
Note(op, arg) == [Rec(op, arg) EXCEPT !.steps = obs.steps]

\* Cpu::step
CpuStep(bound) ==
    /\ obs.steps < bound
    /\ \E res \in {step(cpu, mem)} :
           /\ cpu' = res.cpu
           /\ mem' = res.mem
           /\ obs' = [Rec("step", None) EXCEPT
                        !.executed = Some(res.executed), !.opcode = Some(res.opcode),
                        !.panic = res.panic, !.cycles = Some(res.cycles),
                        !.trace = Append(obs.trace, res.executed)]
    /\ UNCHANGED ppu

\* Cpu::set_thumb_mode then Cpu::set_pc: a pipeline flush at a chosen address
Flush(thumb, addr) ==
    /\ obs.steps < MaxSteps
    /\ cpu' = set_pc(set_thumb_mode(cpu, thumb), addr)
    /\ obs' = [Rec("flush", <<thumb, addr>>) EXCEPT
                 !.start = And32(addr, W(\hFFFF, \hFFFC)),
                 !.width = IF thumb THEN 2 ELSE 4,
                 !.trace = <<>>]
    /\ UNCHANGED <<mem, ppu>>

InitSeq ==
    /\ cpu = Gba_new.cpu
    /\ mem = load_rom(Gba_new.mem, StraightLineRom)
    /\ ppu = Gba_new.ppu
    /\ obs = Obs0

NextSeq ==
    \/ CpuStep(MaxSteps)
    \/ \E addr \in {W(\h0800, 0), W(\h0800, 8)} : Flush(FALSE, addr)
    \/ \E addr \in {ThumbBase, Add32(ThumbBase, U(4))} : Flush(TRUE, addr)

SpecSeq == InitSeq /\ [][NextSeq]_vars

\* C1: after a flush at A, the k-th step executes the instruction at A + (k-1)*w
\* (w = 4 in ARM state, 2 in Thumb state), while no instruction writes R15
C1_SequentialExecution ==
    \A k \in 1..Len(obs.trace) :
        obs.trace[k] = Add32(obs.start, U((k - 1) * obs.width))

\* the ARM half of C1 alone
C1_ArmSequential ==
    obs.width = 4 =>
        \A k \in 1..Len(obs.trace) : obs.trace[k] = Add32(obs.start, U((k - 1) * 4))

C1_ArmWitness == obs.width = 4 /\ Len(obs.trace) >= 4

C1_ThumbWitness == obs.width = 2 /\ Len(obs.trace) >= 4

(***************************************************************************)
(* Mode switches and register banks: Cpu::set_mode, set_sp, set_lr.        *)
(***************************************************************************)
MaxBankOps == 5

BankValues == {W(0, \h1111), W(\h0300, \h2222)}

\* Cpu::set_mode
SetMode(mode, bound) ==
    /\ obs.steps < bound
    /\ cpu' = set_mode(cpu, mode)
    /\ obs' = Rec("set_mode", mode)
    /\ UNCHANGED <<mem, ppu>>

\* Cpu::set_sp
SetSp(val) ==
    /\ obs.steps < MaxBankOps
    /\ cpu' = set_sp(cpu, val)
    /\ obs' = [Rec("set_sp", val) EXCEPT !.sp_of[BankOf(get_mode(cpu))] = Some(val)]
    /\ UNCHANGED <<mem, ppu>>

\* Cpu::set_lr
SetLr(val) ==
    /\ obs.steps < MaxBankOps
    /\ cpu' = set_lr(cpu, val)
    /\ obs' = [Rec("set_lr", val) EXCEPT !.lr_of[BankOf(get_mode(cpu))] = Some(val)]
    /\ UNCHANGED <<mem, ppu>>

InitBank ==
    /\ cpu = Gba_new.cpu
    /\ mem = Gba_new.mem
    /\ ppu = Gba_new.ppu
    /\ obs = Obs0

NextBank ==
    \/ \E mode \in Modes : SetMode(mode, MaxBankOps)
    \/ \E val \in BankValues : SetSp(val)
    \/ \E val \in BankValues : SetLr(val)

SpecBank == InitBank /\ [][NextBank]_vars

\* C8: in every mode R13 and R14 hold the value last written to them in a mode
\* of the same bank, whatever was written in the other banks in between; and a
\* switch between User and System leaves R13 and R14 as they were
C8_BankingRoundTrip ==
    /\ obs.sp_of[BankOf(get_mode(cpu))] # None =>
           get_sp(cpu) = obs.sp_of[BankOf(get_mode(cpu))][2]
    /\ obs.lr_of[BankOf(get_mode(cpu))] # None =>
           get_lr(cpu) = obs.lr_of[BankOf(get_mode(cpu))][2]
    /\ (obs.op = "set_mode" /\ {get_mode(obs.pre_cpu), obs.arg} \subseteq {User, System}) =>
           /\ get_sp(cpu) = get_sp(obs.pre_cpu)
           /\ get_lr(cpu) = get_lr(obs.pre_cpu)

\* back in User mode from IRQ mode, with different values written to R13 in
\* the two banks
C8_RoundTripWitness ==
    /\ obs.op = "set_mode" /\ get_mode(cpu) = User /\ get_mode(obs.pre_cpu) = Irq
    /\ obs.sp_of[System] # None /\ obs.sp_of[Irq] # None
    /\ obs.sp_of[System] # obs.sp_of[Irq]
    /\ obs.sp_of[System] # Some(W(\h0300, \h7F00))

(***************************************************************************)
(* Interrupt entry and the FIQ registers: Cpu::take_interrupt, set_mode,   *)
(* set_reg, set_pc.                                                        *)
(***************************************************************************)
MaxIrqOps == 4

\* Cpu::set_reg
SetReg(n, val, bound) ==
    /\ obs.steps < bound
    /\ cpu' = set_reg(cpu, n, val)
    /\ obs' = [Rec("set_reg", <<n, val>>) EXCEPT
                 !.fiq_regs = IF n \in 8..12 /\ get_mode(cpu) = Fiq
                              THEN [@ EXCEPT ![n] = Some(val)] ELSE @,
                 !.other_regs = IF n \in 8..12 /\ get_mode(cpu) # Fiq
                                THEN [@ EXCEPT ![n] = Some(val)] ELSE @]
    /\ UNCHANGED <<mem, ppu>>

\* Cpu::set_pc
SetPc(addr) ==
    /\ obs.steps < MaxIrqOps
    /\ cpu' = set_pc(cpu, addr)
    /\ obs' = Rec("set_pc", addr)
    /\ UNCHANGED <<mem, ppu>>

\* Cpu::take_interrupt
TakeInterrupt ==
    /\ obs.steps < MaxIrqOps
    /\ cpu' = take_interrupt(cpu)
    /\ obs' = Rec("take_interrupt", None)
    /\ UNCHANGED <<mem, ppu>>

NextIrq ==
    \/ \E mode \in Modes : SetMode(mode, MaxIrqOps)
    \/ \E n \in 8..12, val \in BankValues : SetReg(n, val, MaxIrqOps)
    \/ \E addr \in {W(\h0800, \h0100), W(\h0300, \h0040)} : SetPc(addr)
    \/ TakeInterrupt

SpecIrq == InitBank /\ [][NextIrq]_vars

\* C2: after take_interrupt from status c and PC p the mode is IRQ, get_spsr
\* returns c, LR = p - 4, the IRQ-disable bit is set, PC = 0x00000018 and
\* R0-R12 are as before
C2_TakeInterrupt ==
    obs.op = "take_interrupt" =>
        /\ get_mode(cpu) = Irq
        /\ get_spsr(cpu) = get_cpsr(obs.pre_cpu)
        /\ get_lr(cpu) = Sub32(get_pc(obs.pre_cpu), U(4))
        /\ TestBits(get_cpsr(cpu), FlagIRQ)
        /\ get_pc(cpu) = W(0, \h0018)
        /\ \A n \in 0..12 : get_reg(cpu, n) = get_reg(obs.pre_cpu, n)

\* C10: R8-R12 hold in FIQ mode the value last written to them in FIQ mode,
\* and outside FIQ mode the value last written to them outside FIQ mode
C10_FiqPrivateRegisters ==
    \A n \in 8..12 :
        IF get_mode(cpu) = Fiq
        THEN obs.fiq_regs[n] # None => get_reg(cpu, n) = obs.fiq_regs[n][2]
        ELSE get_reg(cpu, n) = obs.other_regs[n][2]

(***************************************************************************)
(* The interrupt controller, directly and through the bus:                 *)
(* InterruptController::request, write_register, get_pending and           *)
(* Memory::write_half, read_half on the I/O block.                         *)
(***************************************************************************)
MaxIcOps == 2

\* enable and request masks of the initial controller states
IcMasks == {0, \h0001, \h0002, \h000A, \h2008, \h3FFF}

IcFlags == {\h0001, \h0008}

IcValues == {0, \h0001, \h000A}

REG_IE == W(\h0400, \h0200)

REG_IF == W(\h0400, \h0202)

REG_IME == W(\h0400, \h0208)

\* InterruptController::request
Request(flag, bound) ==
    /\ obs.steps < bound
    /\ mem' = [mem EXCEPT !.interrupt = request(mem.interrupt, flag)]
    /\ obs' = Rec("request", flag)
    /\ UNCHANGED <<cpu, ppu>>

\* InterruptController::write_register
WriteRegister(offset, val, bound) ==
    /\ obs.steps < bound
    /\ mem' = [mem EXCEPT !.interrupt = write_register(mem.interrupt, offset, val)]
    /\ obs' = Rec("write_register", <<offset, val>>)
    /\ UNCHANGED <<cpu, ppu>>

\* Memory::write_half
BusWriteHalf(addr, val) ==
    /\ obs.steps < MaxIcOps
    /\ mem' = write_half(mem, addr, val)
    /\ obs' = Rec("write_half", <<addr, val>>)
    /\ UNCHANGED <<cpu, ppu>>

\* Memory::read_half
BusReadHalf(addr) ==
    /\ obs.steps < MaxIcOps
    /\ obs' = [Rec("read_half", addr) EXCEPT !.ret = read_half(mem, addr)]
    /\ UNCHANGED <<cpu, mem, ppu>>

\* InterruptController::get_pending
GetPending ==
    /\ obs.steps < MaxIcOps
    /\ obs' = [Rec("get_pending", None) EXCEPT !.ret = get_pending(mem.interrupt)]
    /\ UNCHANGED <<cpu, mem, ppu>>

\* every enable mask, request mask and master enable is a state the
\* controller reaches through write_register and request
InitIc ==
    /\ cpu = Gba_new.cpu
    /\ \E e \in IcMasks, r \in IcMasks, i \in BOOLEAN :
           mem = [Gba_new.mem EXCEPT
                     !.interrupt = [InterruptController_new EXCEPT
                                       !.ie = e, !.if_raw = r, !.ime = i]]
    /\ ppu = Gba_new.ppu
    /\ obs = Obs0

NextIc ==
    \/ \E flag \in IcFlags : Request(flag, MaxIcOps)
    \/ \E offset \in {\h000, \h002, \h208}, val \in IcValues :
           WriteRegister(offset, val, MaxIcOps)
    \/ \E addr \in {REG_IE, REG_IF, REG_IME}, val \in IcValues : BusWriteHalf(addr, val)
    \/ \E addr \in {REG_IE, REG_IF} : BusReadHalf(addr)
    \/ GetPending

SpecIc == InitIc /\ [][NextIc]_vars

\* the flag of the lowest-numbered bit set in a non-empty mask
LowestFlag(mask) ==
    CHOOSE f \in {2^k : k \in 0..15} : (mask \div f) % 2 = 1 /\ mask % f = 0

\* C6: get_pending returns None when the master enable is false; when it is
\* true, None if enable AND request is empty and otherwise the flag of the
\* lowest-numbered bit set in enable AND request
C6_PendingGating ==
    obs.op = "get_pending" =>
        obs.ret = IF ~obs.pre_ic.ime THEN None
                  ELSE IF And16(obs.pre_ic.ie, obs.pre_ic.if_raw) = 0 THEN None
                  ELSE Some(LowestFlag(And16(obs.pre_ic.ie, obs.pre_ic.if_raw)))

\* get_pending called with the master enable false and enable AND request
\* non-empty
C6_MasterDisabledWitness ==
    /\ obs.op = "get_pending"
    /\ ~obs.pre_ic.ime
    /\ And16(obs.pre_ic.ie, obs.pre_ic.if_raw) # 0
    /\ obs.ret = None

\* get_pending called with the master enable true and two bits set in
\* enable AND request
C6_LowestBitWitness ==
    /\ obs.op = "get_pending"
    /\ obs.pre_ic.ime
    /\ And16(obs.pre_ic.ie, obs.pre_ic.if_raw) = \h000A
    /\ obs.ret = Some(\h0002)

\* C7: a half-word written to 0x04000200 becomes the enable mask of
\* get_pending, 1-bits written to 0x04000202 clear exactly those request bits,
\* and a read of either address returns the enable / request mask
C7_BusInterruptRegisters ==
    /\ (obs.op = "write_half" /\ obs.arg[1] = REG_IE) =>
           mem.interrupt.ie = from_bits_truncate(obs.arg[2])
    /\ (obs.op = "write_half" /\ obs.arg[1] = REG_IF) =>
           mem.interrupt.if_raw =
               And16(obs.pre_ic.if_raw, Not16(from_bits_truncate(obs.arg[2])))
    /\ (obs.op = "read_half" /\ obs.arg = REG_IE) => obs.ret = mem.interrupt.ie
    /\ (obs.op = "read_half" /\ obs.arg = REG_IF) => obs.ret = mem.interrupt.if_raw

(***************************************************************************)
(* The system step: Gba::step with a cartridge, a BIOS whose interrupt     *)
(* vector holds a handler, and the controller driven from outside.         *)
(***************************************************************************)
MaxGbaSteps == 4

NOP == W(\hE1A0, \h0000)

\* SUBS PC, LR, #4
SUBS_PC_LR_4 == W(\hE25E, \hF004)

\* LDMFD SP!, {PC}^
LDMFD_SP_PC == W(\hE8FD, \h8000)

\* a BIOS whose vector 0x18 returns at once
ReturnBios == WordImage(<<NOP, NOP, NOP, NOP, NOP, NOP, SUBS_PC_LR_4, NOP>>)

\* a BIOS whose vector 0x18 holds MOV SP, #0x03000000; STMFD SP!, {LR};
\* LDMFD SP!, {PC}^
StackBios ==
    WordImage(<<NOP, NOP, NOP, NOP, NOP, NOP,
                W(\hE3A0, \hD403), W(\hE92D, \h4000), LDMFD_SP_PC, NOP>>)

\* Gba::step
GbaStep ==
    /\ obs.steps < MaxGbaSteps
    /\ \E res \in {Gba_step(cpu, mem, ppu)} :
           /\ cpu' = res.cpu
           /\ mem' = res.mem
           /\ ppu' = res.ppu
           /\ obs' = [Rec("gba_step", None) EXCEPT
                        !.entered = res.entered, !.entry_cpu = res.entry_cpu,
                        !.executed = Some(res.executed), !.opcode = Some(res.opcode),
                        !.panic = res.panic,
                        !.interrupted = IF res.entered THEN Some(get_cpsr(cpu)) ELSE @,
                        !.entries = IF res.entered THEN @ + 1 ELSE @]

\* InterruptController::request between two system steps
GbaRequest(flag) ==
    /\ mem' = [mem EXCEPT !.interrupt = request(mem.interrupt, flag)]
    /\ obs' = Note("request", flag)
    /\ UNCHANGED <<cpu, ppu>>

\* InterruptController::write_register between two system steps
GbaWriteRegister(offset, val) ==
    /\ mem' = [mem EXCEPT !.interrupt = write_register(mem.interrupt, offset, val)]
    /\ obs' = Note("write_register", <<offset, val>>)
    /\ UNCHANGED <<cpu, ppu>>

\* Cpu::set_interrupts_enabled
SetInterruptsEnabled(enabled) ==
    /\ cpu' = set_interrupts_enabled(cpu, enabled)
    /\ obs' = Note("set_interrupts_enabled", enabled)
    /\ UNCHANGED <<mem, ppu>>

\* Ppu::set_vcount and set_hcounter: the end of the last visible line
SetScanline ==
    /\ ppu' = set_hcounter(set_vcount(ppu, 159), 1231)
    /\ obs' = Note("set_scanline", None)
    /\ UNCHANGED <<cpu, mem>>

InitGba ==
    /\ cpu = Gba_new.cpu
    /\ \E bios \in {ReturnBios, StackBios} :
           mem = load_bios(load_rom(Gba_new.mem, StraightLineRom), bios)
    /\ ppu = Gba_new.ppu
    /\ obs = Obs0

NextGba ==
    \/ GbaStep
    \/ GbaRequest(Interrupt_VBLANK)
    \/ \E offset \in {\h000, \h208} : GbaWriteRegister(offset, 1)
    \/ \E enabled \in BOOLEAN : SetInterruptsEnabled(enabled)
    \/ SetScanline

SpecGba == InitGba /\ [][NextGba]_vars

\* the last system step executed a return-from-exception instruction in IRQ mode
Returned ==
    /\ obs.op = "gba_step"
    /\ obs.opcode \in {Some(SUBS_PC_LR_4), Some(LDMFD_SP_PC)}
    /\ get_mode(obs.entry_cpu) = Irq

\* C3: a system step enters the interrupt handler only if the controller
\* reports a pending interrupt and CPSR bit 7 was clear before the step
C3_EntryGuard ==
    (obs.op = "gba_step" /\ obs.entered) =>
        /\ get_pending(obs.pre_ic) # None
        /\ are_interrupts_enabled(obs.pre_cpu)

\* C4: after the return instruction of the handler CPSR is the IRQ mode's
\* saved-status register, which is the CPSR of the interrupted code
C4_ExceptionReturn ==
    Returned =>
        /\ get_cpsr(cpu) = get_spsr(obs.entry_cpu)
        /\ obs.interrupted # None
        /\ get_cpsr(cpu) = obs.interrupted[2]

\* C5: a step that enters the handler leaves master-enable clear and the
\* in-handler latch set; the step that returns from it leaves master-enable
\* set and the latch clear
C5_Lifecycle ==
    /\ (obs.op = "gba_step" /\ obs.entered /\ ~Returned) =>
           ~mem.interrupt.ime /\ mem.interrupt.in_interrupt
    /\ Returned => mem.interrupt.ime /\ ~mem.interrupt.in_interrupt

(***************************************************************************)
(* Status-register transfers: Cpu::step over a cartridge of MSR and MRS    *)
(* instructions, from every mode.                                          *)
(***************************************************************************)
MaxPsrOps == 5

\* MSR CPSR_c, R0
MSR_CPSR_c_R0 == W(\hE121, \hF000)

\* MRS R1, CPSR
MRS_R1_CPSR == W(\hE10F, \h1000)

\* MSR CPSR_fc, R0
MSR_CPSR_fc_R0 == W(\hE129, \hF000)

PsrRom ==
    WordImage(<<MSR_CPSR_c_R0, MRS_R1_CPSR, MSR_CPSR_fc_R0, MRS_R1_CPSR,
                NOP, NOP, NOP, NOP>>)

\* status words for R0: IRQ mode, Supervisor mode, User mode with all flags
PsrValues == {W(0, \h0012), W(0, \h0013), W(\hF000, \h0010)}

InitPsr ==
    /\ cpu = Gba_new.cpu
    /\ mem = load_rom(Gba_new.mem, PsrRom)
    /\ ppu = Gba_new.ppu
    /\ obs = Obs0

NextPsr ==
    \/ CpuStep(MaxPsrOps)
    \/ \E mode \in Modes : SetMode(mode, MaxPsrOps)
    \/ \E val \in PsrValues : SetReg(0, val, MaxPsrOps)

SpecPsr == InitPsr /\ [][NextPsr]_vars

\* the mode number the last step's MSR wrote, from R0 before the step
MsrTarget == Field(get_reg(obs.pre_cpu, 0), 0, 5)

\* the last step executed an MSR to CPSR with the control field
MsrExecuted ==
    /\ obs.op = "step"
    /\ obs.opcode \in {Some(MSR_CPSR_c_R0), Some(MSR_CPSR_fc_R0)}

\* C9: an MSR to CPSR with the control field, outside User mode and with a
\* different valid mode number, changes to that mode and swaps R13/R14 with
\* the banks; in User mode it leaves mode and banks alone; an MRS copies CPSR
\* to its destination register and leaves CPSR alone
C9_StatusTransfers ==
    /\ (MsrExecuted /\ get_mode(obs.pre_cpu) # User /\ MsrTarget \in Modes
           /\ MsrTarget # get_mode(obs.pre_cpu)) =>
           /\ get_mode(cpu) = MsrTarget
           /\ get_sp(cpu) = get_sp(set_mode(obs.pre_cpu, MsrTarget))
           /\ get_lr(cpu) = get_lr(set_mode(obs.pre_cpu, MsrTarget))
    /\ (MsrExecuted /\ get_mode(obs.pre_cpu) = User) =>
           /\ get_mode(cpu) = User
           /\ get_sp(cpu) = get_sp(obs.pre_cpu)
           /\ get_lr(cpu) = get_lr(obs.pre_cpu)
           /\ cpu.banked_sp = obs.pre_cpu.banked_sp
           /\ cpu.banked_lr = obs.pre_cpu.banked_lr
    /\ (obs.op = "step" /\ obs.opcode = Some(MRS_R1_CPSR)) =>
           /\ get_reg(cpu, 1) = get_cpsr(obs.pre_cpu)
           /\ get_cpsr(cpu) = get_cpsr(obs.pre_cpu)

(***************************************************************************)
(* Conditional execution: Cpu::step over a cartridge holding one           *)
(* instruction per condition field, from every N/Z/C/V combination.        *)
(***************************************************************************)
MaxCondSteps == 3

\* ADD<cond> R1, R1, #1
AddCond(cond) == W(cond * 4096 + \h0281, \h1001)

\* STR<cond> R2, [SP], #-4
StrCond(cond) == W(cond * 4096 + \h040D, \h2004)

\* the sixteen ADDs at 0x08000000, the sixteen STRs at 0x08000040
CondRom ==
    WordImage([k \in 1..16 |-> AddCond(k - 1)] \o [k \in 1..16 |-> StrCond(k - 1)]
              \o <<NOP, NOP, NOP>>)

\* the Cpu after reset with R2 set, the four flags set from the bits of f
\* (N = bit 3, Z = bit 2, C = bit 1, V = bit 0) and PC at instruction k
CondCpu(f, k) ==
    set_pc(set_flag_v(set_flag_c(set_flag_z(set_flag_n(
               set_reg(Gba_new.cpu, 2, W(\h1234, \h5678)),
               (f \div 8) % 2 = 1), (f \div 4) % 2 = 1), (f \div 2) % 2 = 1), f % 2 = 1),
           W(\h0800, 4 * k))

InitCond ==
    /\ \E f \in 0..15, k \in 0..31 : cpu = CondCpu(f, k)
    /\ mem = load_rom(Gba_new.mem, CondRom)
    /\ ppu = Gba_new.ppu
    /\ obs = Obs0

NextCond == CpuStep(MaxCondSteps)

SpecCond == InitCond /\ [][NextCond]_vars

\* the flag truth table of the sixteen condition fields; field 15 never holds
CondTable(cond, n, z, c, v) ==
    CASE cond = 0 -> z
      [] cond = 1 -> ~z
      [] cond = 2 -> c
      [] cond = 3 -> ~c
      [] cond = 4 -> n
      [] cond = 5 -> ~n
      [] cond = 6 -> v
      [] cond = 7 -> ~v
      [] cond = 8 -> c /\ ~z
      [] cond = 9 -> ~c \/ z
      [] cond = 10 -> n = v
      [] cond = 11 -> n # v
      [] cond = 12 -> ~z /\ (n = v)
      [] cond = 13 -> z \/ (n # v)
      [] cond = 14 -> TRUE
      [] cond = 15 -> FALSE

\* the truth table on the flags before the last step, for the condition field
\* of the instruction it executed
CondHeld ==
    CondTable(Field(obs.opcode[2], 28, 4),
              Bit(obs.pre_cpu.cpsr, 31) = 1, Bit(obs.pre_cpu.cpsr, 30) = 1,
              Bit(obs.pre_cpu.cpsr, 29) = 1, Bit(obs.pre_cpu.cpsr, 28) = 1)

\* the last step changed nothing but R15 and the prefetch slots
OnlyPcChanged ==
    /\ \A n \in 0..14 : cpu.r[n] = obs.pre_cpu.r[n]
    /\ cpu.cpsr = obs.pre_cpu.cpsr
    /\ cpu.banked_sp = obs.pre_cpu.banked_sp
    /\ cpu.banked_lr = obs.pre_cpu.banked_lr
    /\ cpu.banked_spsr = obs.pre_cpu.banked_spsr
    /\ cpu.banked_r8_fiq = obs.pre_cpu.banked_r8_fiq
    /\ cpu.banked_r12_fiq = obs.pre_cpu.banked_r12_fiq
    /\ mem = obs.pre_mem

\* R15 while the last step's instruction executed: two instructions ahead
LookAhead ==
    IF obs.pre_cpu.pipeline_loaded THEN obs.pre_cpu.r[15]
    ELSE Add32(obs.pre_cpu.r[15], U(8))

\* C11: an instruction takes effect iff the truth table holds for its
\* condition field and the flags; when it fails the step returns a cycle
\* cost, moves R15 on by 4 and changes no other register, flag, mode, banked
\* register or memory byte
C11_ConditionalExecution ==
    (obs.op = "step" /\ obs.opcode[2] # NOP) =>
        /\ CondHeld <=> ~OnlyPcChanged
        /\ ~CondHeld =>
               /\ cpu.r[15] = Add32(LookAhead, U(4))
               /\ obs.cycles \in {Some(n) : n \in 1..4}

\* a step whose instruction failed LS with C set and Z clear
C11_FailedWitness ==
    /\ obs.op = "step" /\ Field(obs.opcode[2], 28, 4) = 9
    /\ ~CondHeld /\ OnlyPcChanged
    /\ obs.pre_cpu.pipeline_loaded

(***************************************************************************)
(* Flag-setting arithmetic: one step over each of the eight additive and   *)
(* subtractive operations, from operands at the edges of the signed and    *)
(* unsigned ranges and either carry-in.                                    *)
(***************************************************************************)
MaxAluSteps == 2

\* ADDS R0,R1,R2; ADCS R0,R1,R2; CMN R1,R2; SUBS R0,R1,R2; RSBS R0,R1,R2;
\* SBCS R0,R1,R2; RSCS R0,R1,R2; CMP R1,R2
AluOps ==
    <<W(\hE091, 2), W(\hE0B1, 2), W(\hE171, 2), W(\hE051, 2),
      W(\hE071, 2), W(\hE0D1, 2), W(\hE0F1, 2), W(\hE151, 2)>>

AluRom == WordImage(AluOps \o <<NOP, NOP, NOP>>)

AluValues ==
    {Zero, U(1), U(2), W(\h7FFF, \hFFFF), W(\h8000, 0), W(\h8000, 1), W(\hFFFF, \hFFFF)}

AluCpu(a, b, carry, k) ==
    set_pc(set_flag_c(set_reg(set_reg(Gba_new.cpu, 1, a), 2, b), carry), W(\h0800, 4 * k))

InitAlu ==
    /\ \E a \in AluValues, b \in AluValues, carry \in BOOLEAN, k \in 0..7 :
           cpu = AluCpu(a, b, carry, k)
    /\ mem = load_rom(Gba_new.mem, AluRom)
    /\ ppu = Gba_new.ppu
    /\ obs = Obs0

NextAlu == CpuStep(MaxAluSteps)

SpecAlu == InitAlu /\ [][NextAlu]_vars

\* the full sum a + b + cin: <<carry-out, result>>
FullSum(a, b, cin) ==
    <<(a[1] + b[1] + ((a[2] + b[2] + cin) \div 65536)) \div 65536,
      <<(a[1] + b[1] + ((a[2] + b[2] + cin) \div 65536)) % 65536,
        (a[2] + b[2] + cin) % 65536>>>>

\* N, Z, C, V of the sum a + b + cin
SumFlags(a, b, cin) ==
    <<SNeg(FullSum(a, b, cin)[2]), FullSum(a, b, cin)[2] = Zero,
      FullSum(a, b, cin)[1] = 1,
      SNeg(a) = SNeg(b) /\ SNeg(FullSum(a, b, cin)[2]) # SNeg(a)>>

\* N, Z, C, V of the difference a - b - (1 - cin): C is NOT borrow
DiffFlags(a, b, cin) == SumFlags(a, Not32(b), cin)

AluCarry == IF Bit(obs.pre_cpu.cpsr, 29) = 1 THEN 1 ELSE 0

\* the flags the operation just stepped over must leave
AluExpected ==
    CASE obs.opcode[2] = AluOps[1] -> SumFlags(obs.pre_cpu.r[1], obs.pre_cpu.r[2], 0)
      [] obs.opcode[2] = AluOps[2] -> SumFlags(obs.pre_cpu.r[1], obs.pre_cpu.r[2], AluCarry)
      [] obs.opcode[2] = AluOps[3] -> SumFlags(obs.pre_cpu.r[1], obs.pre_cpu.r[2], 0)
      [] obs.opcode[2] = AluOps[4] -> DiffFlags(obs.pre_cpu.r[1], obs.pre_cpu.r[2], 1)
      [] obs.opcode[2] = AluOps[5] -> DiffFlags(obs.pre_cpu.r[2], obs.pre_cpu.r[1], 1)
      [] obs.opcode[2] = AluOps[6] -> DiffFlags(obs.pre_cpu.r[1], obs.pre_cpu.r[2], AluCarry)
      [] obs.opcode[2] = AluOps[7] -> DiffFlags(obs.pre_cpu.r[2], obs.pre_cpu.r[1], AluCarry)
      [] obs.opcode[2] = AluOps[8] -> DiffFlags(obs.pre_cpu.r[1], obs.pre_cpu.r[2], 1)

AluFlags == <<get_flag_n(cpu), get_flag_z(cpu), get_flag_c(cpu), get_flag_v(cpu)>>

\* C12: after a step over a flag-setting ADD, ADC, CMN, SUB, RSB, SBC, RSC or
\* CMP, N is bit 31 of the result, Z says the result is zero, C is the carry
\* out of the full sum (NOT borrow for a subtraction) and V is the signed
\* overflow of the operation
C12_ArithmeticFlags ==
    (obs.op = "step" /\ obs.opcode[2] \in {AluOps[i] : i \in 1..8}) =>
        AluFlags = AluExpected

(***************************************************************************)
(* Branches: steps over B and BL with forward and backward offsets, as the *)
(* first instruction after a flush and with the prefetch slots filled.     *)
(***************************************************************************)
MaxBranchSteps == 4

\* B<L> with the 24-bit offset field n (two's complement)
Branch(link, n) ==
    W(\hEA00 + (IF link THEN 256 ELSE 0) + ((n + 16777216) % 16777216) \div 65536,
      (n + 16777216) % 65536)

BranchRom ==
    WordImage(<<Branch(FALSE, 20), Branch(TRUE, 2), NOP, Branch(FALSE, -3),
                NOP, Branch(TRUE, -4), Branch(TRUE, 20), Branch(FALSE, 0),
                Branch(FALSE, 1), Branch(TRUE, -2), Branch(FALSE, -1), NOP>>
              \o [k \in 1..20 |-> NOP])

InitBranch ==
    /\ \E k \in 0..15, lr \in {Zero, W(\h0300, \h1234), W(\hFFFF, \hFFFF)} :
           cpu = set_pc(set_lr(Gba_new.cpu, lr), W(\h0800, 4 * k))
    /\ mem = load_rom(Gba_new.mem, BranchRom)
    /\ ppu = Gba_new.ppu
    /\ obs = Obs0

NextBranch == CpuStep(MaxBranchSteps)

SpecBranch == InitBranch /\ [][NextBranch]_vars

\* the last operation was a step over an always-executed B or BL
BranchStepped ==
    /\ obs.op = "step"
    /\ Field(obs.opcode[2], 28, 4) = 14
    /\ Field(obs.opcode[2], 25, 3) = 5

\* 4 * n for the sign-extended offset field n of the branch stepped over
BranchDisp ==
    IF Bit(obs.opcode[2], 23) = 1
    THEN Shl32(Or32(And32(obs.opcode[2], W(\h00FF, \hFFFF)), W(\hFF00, 0)), 2)
    ELSE Shl32(And32(obs.opcode[2], W(\h00FF, \hFFFF)), 2)

\* the address of the instruction the next step executes
NextFetch == IF cpu.pipeline_loaded THEN cpu.pipeline_pc[0] ELSE cpu.r[15]

\* C13: one step over an always-executed branch at address A with offset
\* field n leaves get_pc() = A + 4*n; the branch 0xEA000014 stepped over at
\* 0x08000000 leaves get_pc() = 0x08000050
C13_BranchPublicPc ==
    BranchStepped => get_pc(cpu) = Add32(obs.executed[2], BranchDisp)

MaxBxSteps == 3

\* BX Rm as a word and as a halfword
ArmBx(rm) == W(\hE12F, \hFF10 + rm)

ThumbBx(rm) == \h4700 + 8 * rm

\* words at 0x08000000, halfwords from 0x08000010, MOV R8,R8 (0x46C0) from
\* 0x08000020
BxRom ==
    WordImage(<<NOP, ArmBx(3), NOP, NOP>>)
    \o HalfImage(<<\h46C0, ThumbBx(3), \h46C0, \h46C0,
                   ThumbBx(3), \h46C0, \h46C0, \h46C0>>)
    \o HalfImage([k \in 1..48 |-> \h46C0])

BxTargets == {W(\h0800, base + d) : base \in {64, 80, 96}, d \in 0..3}

BxStarts == {<<FALSE, W(\h0800, 0)>>, <<FALSE, W(\h0800, 4)>>,
             <<TRUE, W(\h0800, 16)>>, <<TRUE, W(\h0800, 24)>>}

InitBx ==
    /\ \E t \in BxTargets, st \in BxStarts :
           cpu = set_pc(set_thumb_mode(set_reg(Gba_new.cpu, 3, t), st[1]), st[2])
    /\ mem = load_rom(Gba_new.mem, BxRom)
    /\ ppu = Gba_new.ppu
    /\ obs = Obs0

NextBx == CpuStep(MaxBxSteps)

SpecBx == InitBx /\ [][NextBx]_vars

\* the last operation was a step over BX R3
BxStepped ==
    /\ obs.op = "step"
    /\ obs.opcode[2] = IF is_thumb_mode(obs.pre_cpu) THEN W(0, ThumbBx(3)) ELSE ArmBx(3)

\* C15: a step over BX on a register holding t leaves the instruction-set bit
\* equal to bit 0 of t and the PC equal to t with only bit 0 cleared; a Thumb
\* target with t mod 4 = 3 is entered at t - 1
C15_BranchExchange ==
    BxStepped =>
        /\ is_thumb_mode(cpu) = (Bit(obs.pre_cpu.r[3], 0) = 1)
        /\ get_pc(cpu) = And32(obs.pre_cpu.r[3], W(\hFFFF, \hFFFE))

(***************************************************************************)
(* Reads of R15 as an operand: a move, an add and a load that take R15 as  *)
(* their source, in either instruction set, stepped over as the first      *)
(* instruction after a flush and after it.                                 *)
(***************************************************************************)
MaxPcReadSteps == 4

\* MOV R0,PC; ADD R0,PC,#4; LDR R0,[PC,#0] (words)
ArmPcReads == <<W(\hE1A0, \h000F), W(\hE28F, \h0004), W(\hE59F, \h0000)>>

\* MOV R8,PC; ADD R0,PC,#4; LDR R3,[PC,#4] (halfwords)
ThumbPcReads == <<\h46F8, \hA001, \h4B01>>

\* words at 0x08000000, halfwords from 0x08000020
PcReadRom ==
    WordImage(ArmPcReads \o ArmPcReads \o <<NOP, NOP>>)
    \o HalfImage(ThumbPcReads \o ThumbPcReads \o <<\h46F8, \h46F8>>)
    \o HalfImage([k \in 1..8 |-> \h46C0])

PcReadStarts ==
    {<<FALSE, W(\h0800, 4 * k)>> : k \in 0..5} \cup {<<TRUE, W(\h0800, 32 + 4 * k)>> : k \in 0..3}

InitPcRead ==
    /\ \E st \in PcReadStarts, r0 \in {Zero, W(\h1234, \h5678), W(\h8000, 0), W(\hFFFF, \hFFFF)} :
           cpu = set_pc(set_thumb_mode(set_reg(Gba_new.cpu, 0, r0), st[1]), st[2])
    /\ mem = load_rom(Gba_new.mem, PcReadRom)
    /\ ppu = Gba_new.ppu
    /\ obs = Obs0

NextPcRead == CpuStep(MaxPcReadSteps)

SpecPcRead == InitPcRead /\ [][NextPcRead]_vars

\* the look-ahead value for the instruction just stepped over
PcReadLookAhead ==
    Add32(obs.executed[2], IF is_thumb_mode(obs.pre_cpu) THEN U(4) ELSE U(8))

PcReadAligned == And32(PcReadLookAhead, W(\hFFFF, \hFFFC))

PcReadStepped ==
    /\ obs.op = "step"
    /\ IF is_thumb_mode(obs.pre_cpu)
       THEN obs.opcode[2] \in {W(0, ThumbPcReads[i]) : i \in 1..3}
       ELSE obs.opcode[2] \in {ArmPcReads[i] : i \in 1..3}

\* the destination register of the instruction just stepped over
PcReadDest ==
    IF ~is_thumb_mode(obs.pre_cpu) THEN 0
    ELSE IF obs.opcode[2] = W(0, ThumbPcReads[1]) THEN 8
    ELSE IF obs.opcode[2] = W(0, ThumbPcReads[3]) THEN 3
    ELSE 0

\* what the destination holds after the instruction if it read the look-ahead
\* value
PcReadExpected ==
    IF is_thumb_mode(obs.pre_cpu)
    THEN CASE obs.opcode[2] = W(0, ThumbPcReads[1]) -> PcReadLookAhead
           [] obs.opcode[2] = W(0, ThumbPcReads[2]) -> Add32(PcReadAligned, U(4))
           [] obs.opcode[2] = W(0, ThumbPcReads[3]) ->
                  read_word(obs.pre_mem, Add32(PcReadAligned, U(4)))
    ELSE CASE obs.opcode[2] = ArmPcReads[1] -> PcReadLookAhead
           [] obs.opcode[2] = ArmPcReads[2] -> Add32(PcReadLookAhead, U(4))
           [] obs.opcode[2] = ArmPcReads[3] -> read_word(obs.pre_mem, PcReadLookAhead)

\* C16: an instruction at address A that reads R15 as an operand reads A + 8
\* in ARM state and A + 4 in Thumb state, as the first instruction after a
\* flush and as a later one
C16_LookAhead == PcReadStepped => cpu.r[PcReadDest] = PcReadExpected

(***************************************************************************)
(* Alignment of the PC: steps from reset over instructions that write R15  *)
(* from a register holding addresses of every alignment.                   *)
(***************************************************************************)
MaxAlignSteps == 4

\* ORR PC,PC,#1; MOV PC,R1; ADD PC,R1,#0; BIC PC,R1,#0; BX R1; ORR PC,R1,#0;
\* MVN PC,R2; MOV R0,R0
AlignOps ==
    <<W(\hE38F, \hF001), W(\hE1A0, \hF001), W(\hE281, \hF000), W(\hE3C1, \hF000),
      ArmBx(1), W(\hE381, \hF000), W(\hE1E0, \hF002), NOP>>

\* words at 0x08000000, MOV R8,R8 (0x46C0) from 0x08000020
AlignRom == WordImage(AlignOps) \o HalfImage([k \in 1..64 |-> \h46C0])

AlignTargets == {W(\h0800, 64 + d) : d \in 0..3}

InitAlign ==
    /\ \E t \in AlignTargets, k \in 0..7 :
           cpu = set_pc(set_reg(set_reg(Gba_new.cpu, 1, t), 2, Not32(t)), W(\h0800, 4 * k))
    /\ mem = load_rom(Gba_new.mem, AlignRom)
    /\ ppu = Gba_new.ppu
    /\ obs = Obs0

NextAlign == CpuStep(MaxAlignSteps)

SpecAlign == InitAlign /\ [][NextAlign]_vars

\* C17: in every state reached from reset by step() calls, get_pc() is a
\* multiple of 4 in ARM state and a multiple of 2 in Thumb state
C17_PcAligned ==
    Lo(get_pc(cpu)) % (IF is_thumb_mode(cpu) THEN 2 ELSE 4) = 0

(***************************************************************************)
(* The public accessors and reset: every setter of Cpu and Cpu::reset,     *)
(* applied in either instruction set and in several modes.                 *)
(***************************************************************************)
MaxRegOps == 2

RegValues == {Zero, W(\h0800, \h0042), W(\hFFFF, \hFFFF)}

PcValues == {W(\h0800, \h0040), W(\h0800, \h0042), W(\h0300, \h0004), W(\h0300, \h0006)}

\* a call of a method of Cpu that returns nothing: after is the Cpu it leaves
Assign(op, arg, after) ==
    /\ obs.steps < MaxRegOps
    /\ cpu' = after
    /\ obs' = Rec(op, arg)
    /\ UNCHANGED <<mem, ppu>>

InitRegs ==
    /\ \E mode \in {System, Irq, Fiq}, thumb \in BOOLEAN :
           cpu = set_thumb_mode(set_mode(Gba_new.cpu, mode), thumb)
    /\ mem = Gba_new.mem
    /\ ppu = Gba_new.ppu
    /\ obs = Obs0

NextRegs ==
    \/ \E n \in 0..14, x \in RegValues : Assign("set_reg", <<n, x>>, set_reg(cpu, n, x))
    \/ \E x \in RegValues : Assign("set_sp", x, set_sp(cpu, x))
    \/ \E x \in RegValues : Assign("set_lr", x, set_lr(cpu, x))
    \/ \E b \in BOOLEAN : Assign("set_flag_n", b, set_flag_n(cpu, b))
    \/ \E b \in BOOLEAN : Assign("set_flag_z", b, set_flag_z(cpu, b))
    \/ \E b \in BOOLEAN : Assign("set_flag_c", b, set_flag_c(cpu, b))
    \/ \E b \in BOOLEAN : Assign("set_flag_v", b, set_flag_v(cpu, b))
    \/ \E b \in BOOLEAN : Assign("set_thumb_mode", b, set_thumb_mode(cpu, b))
    \/ \E b \in BOOLEAN :
           Assign("set_interrupts_enabled", b, set_interrupts_enabled(cpu, b))
    \/ \E x \in PcValues : Assign("set_pc", x, set_pc(cpu, x))
    \/ \E mode \in Modes : Assign("set_mode", mode, set_mode(cpu, mode))
    \/ Assign("reset", None, reset(cpu))

SpecRegs == InitRegs /\ [][NextRegs]_vars

\* every banked register and saved status register is zero
BanksClear ==
    /\ \A i \in 0..5 : cpu.banked_sp[i] = Zero /\ cpu.banked_lr[i] = Zero
                       /\ cpu.banked_spsr[i] = Zero
    /\ cpu.banked_r8_fiq = Zero /\ cpu.banked_r9_fiq = Zero /\ cpu.banked_r10_fiq = Zero
    /\ cpu.banked_r11_fiq = Zero /\ cpu.banked_r12_fiq = Zero

\* C18: after reset() the mode is System, the T bit is clear, PC = 0x08000000,
\* SP = 0x03007F00, R0-R12 and R14 are zero, N, Z, C and V are clear, every
\* banked register and saved status register is zero; the state is the same
\* whatever the state before, and a second reset() changes nothing
C18_Reset ==
    obs.op = "reset" =>
        /\ get_mode(cpu) = System
        /\ ~is_thumb_mode(cpu)
        /\ get_pc(cpu) = W(\h0800, 0)
        /\ get_sp(cpu) = W(\h0300, \h7F00)
        /\ \A n \in (0..12) \cup {14} : get_reg(cpu, n) = Zero
        /\ ~get_flag_n(cpu) /\ ~get_flag_z(cpu) /\ ~get_flag_c(cpu) /\ ~get_flag_v(cpu)
        /\ BanksClear
        /\ cpu = reset(Cpu_new)
        /\ reset(cpu) = cpu

\* the registers outside the set and all the banks are as before the call
RegsKept(except) ==
    /\ \A n \in (0..15) \ except : cpu.r[n] = obs.pre_cpu.r[n]
    /\ cpu.banked_sp = obs.pre_cpu.banked_sp
    /\ cpu.banked_lr = obs.pre_cpu.banked_lr
    /\ cpu.banked_spsr = obs.pre_cpu.banked_spsr
    /\ cpu.banked_r8_fiq = obs.pre_cpu.banked_r8_fiq
    /\ cpu.banked_r9_fiq = obs.pre_cpu.banked_r9_fiq
    /\ cpu.banked_r10_fiq = obs.pre_cpu.banked_r10_fiq
    /\ cpu.banked_r11_fiq = obs.pre_cpu.banked_r11_fiq
    /\ cpu.banked_r12_fiq = obs.pre_cpu.banked_r12_fiq

\* the status bits outside the mask are as before the call
StatusKept(mask) ==
    And32(cpu.cpsr, Not32(mask)) = And32(obs.pre_cpu.cpsr, Not32(mask))

\* a status-bit setter: the getter returns the bit, nothing else changed
BitRoundTrip(op, got, mask) ==
    obs.op = op => got = obs.arg /\ RegsKept({}) /\ StatusKept(mask)

\* a register setter: the getter returns the value, nothing else changed
RegRoundTrip(op, n, got) ==
    obs.op = op => got = obs.arg /\ RegsKept({n}) /\ StatusKept(Zero)

PcWidth == IF is_thumb_mode(obs.pre_cpu) THEN 2 ELSE 4

\* C19: set(x) then get() returns x for R0-R14, SP and LR; set(b) then get()
\* returns b for N, Z, C, V, the T bit and the interrupt-enable bit; set_pc(x)
\* then get_pc() returns x for x aligned to the current instruction width; and
\* each setter leaves every other register and status bit unchanged
C19_RoundTrip ==
    /\ obs.op = "set_reg" =>
           /\ get_reg(cpu, obs.arg[1]) = obs.arg[2]
           /\ RegsKept({obs.arg[1]}) /\ StatusKept(Zero)
    /\ RegRoundTrip("set_sp", 13, get_sp(cpu))
    /\ RegRoundTrip("set_lr", 14, get_lr(cpu))
    /\ BitRoundTrip("set_flag_n", get_flag_n(cpu), FlagN)
    /\ BitRoundTrip("set_flag_z", get_flag_z(cpu), FlagZ)
    /\ BitRoundTrip("set_flag_c", get_flag_c(cpu), FlagC)
    /\ BitRoundTrip("set_flag_v", get_flag_v(cpu), FlagV)
    /\ BitRoundTrip("set_thumb_mode", is_thumb_mode(cpu), FlagTHUMB)
    /\ BitRoundTrip("set_interrupts_enabled", are_interrupts_enabled(cpu), FlagIRQ)
    /\ obs.op = "set_pc" =>
           /\ Lo(obs.arg) % PcWidth = 0 => get_pc(cpu) = obs.arg
           /\ RegsKept({15}) /\ StatusKept(Zero)

(***************************************************************************)
(* Unaligned reads: Memory::read_half and Memory::read_word at every       *)
(* alignment in every region, over memories filled by write_word.          *)
(***************************************************************************)
MaxMemOps == 2

\* the first address of the BIOS, the two work RAMs, the I/O registers, the
\* palette, the video RAM, the object memory and the cartridge, and the last
\* word of the address space
MemBases ==
    {W(0, 0), W(\h0200, 0), W(\h0300, 0), W(\h0400, 0), W(\h0500, 0), W(\h0600, 0),
     W(\h0700, 0), W(\h0800, 0), W(\hFFFF, \hFFF8)}

MemAddrs == {Add32(base, U(d)) : base \in MemBases, d \in 0..7}

MemValues == {W(\h1234, \h5678), W(\h9ABC, \hDEF0)}

\* an unchecked addr + 1 that overflowed: a build with overflow checks stops
\* there, a build without them goes on with the wrapped address
read_half_overflows(addr) == addr = W(\hFFFF, \hFFFF)

\* Memory::read_half
MemReadHalf(addr) ==
    /\ obs.steps < MaxMemOps
    /\ obs' = [Rec("read_half", addr) EXCEPT !.ret = Some(read_half(mem, addr)),
                                             !.panic = read_half_overflows(addr)]
    /\ UNCHANGED <<cpu, mem, ppu>>

\* Memory::read_word
MemReadWord(addr) ==
    /\ obs.steps < MaxMemOps
    /\ obs' = [Rec("read_word", addr) EXCEPT !.ret = Some(read_word(mem, addr))]
    /\ UNCHANGED <<cpu, mem, ppu>>

\* Memory::write_word
MemWriteWord(addr, val) ==
    /\ obs.steps < MaxMemOps
    /\ mem' = write_word(mem, addr, val)
    /\ obs' = Rec("write_word", <<addr, val>>)
    /\ UNCHANGED <<cpu, ppu>>

\* 0x78 0x56 0x34 0x12 0xF0 0xDE 0xBC 0x9A written at base
MemFill(m, base) ==
    write_word(write_word(m, base, W(\h1234, \h5678)), Add32(base, U(4)), W(\h9ABC, \hDEF0))

\* the same eight bytes at the start of the cartridge and of every RAM
InitMem ==
    /\ cpu = Gba_new.cpu
    /\ \E m1 \in {MemFill(load_rom(Gba_new.mem,
                                   WordImage(<<W(\h1234, \h5678), W(\h9ABC, \hDEF0)>>)),
                          W(\h0200, 0))} :
       \E m2 \in {MemFill(m1, W(\h0300, 0))} :
       \E m3 \in {MemFill(m2, W(\h0500, 0))} :
       \E m4 \in {MemFill(m3, W(\h0600, 0))} :
           mem = MemFill(m4, W(\h0700, 0))
    /\ ppu = Gba_new.ppu
    /\ obs = Obs0

NextMem ==
    \/ \E addr \in MemAddrs : MemReadHalf(addr)
    \/ \E addr \in MemAddrs : MemReadWord(addr)
    \/ \E base \in MemBases, val \in MemValues : MemWriteWord(Add32(base, U(4)), val)

SpecMem == InitMem /\ [][NextMem]_vars

\* C20: a half-word read at an odd address A returns the half-word stored at
\* A - 1 rotated right by 8 bits, a word read at A with A mod 4 = k /= 0
\* returns the word stored at A - k rotated right by 8 * k bits, and no
\* unaligned read raises an error
C20_UnalignedReads ==
    /\ (obs.op = "read_half" /\ Bit(obs.arg, 0) = 1) =>
           /\ obs.ret = Some(RotHalf(read_half(mem, Sub32(obs.arg, U(1))), 1))
           /\ ~obs.panic
    /\ (obs.op = "read_word" /\ Field(obs.arg, 0, 2) # 0) =>
           /\ obs.ret = Some(Ror32(read_word(mem, And32(obs.arg, W(\hFFFF, \hFFFC))),
                                   8 * Field(obs.arg, 0, 2)))
           /\ ~obs.panic

\* ---------------------------------------------------------------------------
\* Cartridge ROM windows

MaxRomOps == 2

\* cartridge images of length 0, 1, 3, 4 and 5
RomImages ==
    {<<>>, <<\h11>>, <<\h11, \h22, \h33>>, <<0, \hAA, 0, \hBB>>,
     <<\h11, \h22, \h33, \h44, \h55>>}

\* the first and the last 64 KiB of each of the three windows
RomAddrs ==
    {W(hi, lo) : hi \in {\h0800, \h0801, \h09FF, \h0A00, \h0A01, \h0BFF,
                         \h0C00, \h0C01, \h0DFF},
                 lo \in {0, 1, 2, 3, 4, 5, \hFFFF}}

\* Memory::load_rom
LoadRom(image) ==
    /\ obs.steps < MaxRomOps
    /\ mem' = load_rom(mem, image)
    /\ obs' = Rec("load_rom", image)
    /\ UNCHANGED <<cpu, ppu>>

\* Memory::read_byte
MemReadByte(addr, bound) ==
    /\ obs.steps < bound
    /\ obs' = [Rec("read_byte", addr) EXCEPT !.ret = Some(read_byte(mem, addr))]
    /\ UNCHANGED <<cpu, mem, ppu>>

InitRom ==
    /\ cpu = Gba_new.cpu
    /\ mem = Gba_new.mem
    /\ ppu = Gba_new.ppu
    /\ obs = Obs0

NextRom ==
    \/ \E image \in RomImages : LoadRom(image)
    \/ \E addr \in RomAddrs : MemReadByte(addr, MaxRomOps)

SpecRom == InitRom /\ [][NextRom]_vars

\* the image the cartridge holds: the empty one until load_rom is called
LoadedImage == CHOOSE image \in RomImages : load_rom(Memory_new, image).rom = mem.rom

\* the offset of a cartridge address in its 32 MiB window
WindowOffset(addr) == (Hi(addr) % 512) * 65536 + Lo(addr)

\* C21: with an image of length L > 0 loaded, a byte read at offset k of any
\* of the three cartridge windows returns the image's byte k mod L, and with
\* no image loaded every such read returns zero
C21_RomMirroring ==
    obs.op = "read_byte" =>
        obs.ret = Some(IF Len(LoadedImage) = 0
                       THEN 0
                       ELSE LoadedImage[(WindowOffset(obs.arg) % Len(LoadedImage)) + 1])

\* a non-zero byte read in the third window beyond the end of a 5-byte image
C21_MirrorWitness ==
    /\ obs.op = "read_byte"
    /\ Len(LoadedImage) = 5
    /\ obs.arg = W(\h0DFF, \hFFFF)
    /\ obs.ret = Some(\h22)

\* ---------------------------------------------------------------------------
\* Writes to read-only and unmapped addresses

MaxDiscardOps == 2

\* addresses in the boot ROM, in the three cartridge windows and in unmapped
\* ranges, next to the boundaries of the ranges, and one address of RAM
DiscardAddrs ==
    {W(0, 0), W(0, 4), W(0, \h3FFC), W(0, \h3FFF), W(0, \h4000), W(\h0100, 0),
     W(\h01FF, \hFFFC), W(\h01FF, \hFFFF), W(\h0200, 0), W(\h0400, \h0400),
     W(\h0800, 0), W(\h0800, 4), W(\h0A00, 2), W(\h0C00, 1), W(\h0DFF, \hFFFC),
     W(\h0E00, 0), W(\h1000, 0), W(\hFFFF, \hFFFC), W(\hFFFF, \hFFFE), W(\hFFFF, \hFFFF)}

DiscardValues == {W(\h1234, \h5678), W(\hFFFF, \hFFFF)}

\* an unchecked addr + 1 that overflowed: a build with overflow checks stops
\* there, a build without them goes on with the wrapped address
write_half_overflows(addr) == addr = W(\hFFFF, \hFFFF)

\* Memory::write_byte
MemWriteByte(addr, val) ==
    /\ obs.steps < MaxDiscardOps
    /\ mem' = write_byte(mem, addr, val)
    /\ obs' = Rec("write_byte", <<addr, val>>)
    /\ UNCHANGED <<cpu, ppu>>

\* Memory::write_half
MemWriteHalf(addr, val) ==
    /\ obs.steps < MaxDiscardOps
    /\ mem' = write_half(mem, addr, val)
    /\ obs' = [Rec("write_half", <<addr, val>>) EXCEPT !.panic = write_half_overflows(addr)]
    /\ UNCHANGED <<cpu, ppu>>

\* the eight bytes of MemFill in the cartridge and in the external work RAM
InitDiscard ==
    /\ cpu = Gba_new.cpu
    /\ mem = MemFill(load_rom(Gba_new.mem,
                              WordImage(<<W(\h1234, \h5678), W(\h9ABC, \hDEF0)>>)),
                     W(\h0200, 0))
    /\ ppu = Gba_new.ppu
    /\ obs = Obs0

NextDiscard ==
    \/ \E addr \in DiscardAddrs, val \in DiscardValues : MemWriteByte(addr, Lo(val) % 256)
    \/ \E addr \in DiscardAddrs, val \in DiscardValues : MemWriteHalf(addr, Lo(val))
    \/ \E addr \in DiscardAddrs, val \in DiscardValues : MemWriteWord(addr, val)
    \/ \E addr \in DiscardAddrs : MemReadByte(addr, MaxDiscardOps)
    \/ \E addr \in DiscardAddrs : MemReadHalf(addr)
    \/ \E addr \in DiscardAddrs : MemReadWord(addr)

SpecDiscard == InitDiscard /\ [][NextDiscard]_vars

\* the address is in the boot ROM, in a cartridge window or in no region
ReadOnlyOrUnmapped(addr) == map_address(mem, addr)[1] \in {"Bios", "Rom", "Unknown"}

Unmapped(addr) == map_address(mem, addr)[1] = "Unknown"

\* C22: a write of any width to the boot ROM, to a cartridge window or to an
\* unmapped range raises no error and leaves every byte of the memory as it
\* was, and a read of any width from an unmapped address returns zero
C22_WritesDiscarded ==
    /\ (obs.op \in {"write_byte", "write_half", "write_word"}
            /\ ReadOnlyOrUnmapped(obs.arg[1])) =>
           /\ ~obs.panic
           /\ mem = obs.pre_mem
    /\ (obs.op = "read_byte" /\ Unmapped(obs.arg)) => obs.ret = Some(0)
    /\ (obs.op = "read_half" /\ Unmapped(obs.arg)) => obs.ret = Some(0) /\ ~obs.panic
    /\ (obs.op = "read_word" /\ Unmapped(obs.arg)) => obs.ret = Some(Zero)

\* ---------------------------------------------------------------------------
\* Software interrupts

MaxSwiSteps == 2

\* SWI with a function number, as a word and as a halfword
ArmSwi(func) == W(\hEF00, func)

ThumbSwi(func) == \hDF00 + func

\* the function numbers of the no-op stand-ins: reset RAM, halt, stop and
\* wait for interrupt
NoOpFuncs == {1, 2, 3, 4}

\* words at 0x08000000: the two divisions, the four stand-ins, function 42,
\* which no arm of the match names, and a NOP; halfwords from 0x08000020: the division, the unknown
\* function and MOV R8,R8 (0x46C0)
SwiRom ==
    WordImage(<<ArmSwi(6), ArmSwi(8), ArmSwi(1), ArmSwi(2), ArmSwi(3), ArmSwi(4),
                ArmSwi(42), NOP>>)
    \o HalfImage(<<ThumbSwi(6), ThumbSwi(42), \h46C0, \h46C0>>)

\* instruction set and address of the software interrupt stepped over first
SwiStarts ==
    {<<FALSE, W(\h0800, 4 * k)>> : k \in 0..6} \cup {<<TRUE, W(\h0800, 32)>>, <<TRUE, W(\h0800, 34)>>}

\* the link register before the step: the address after the instruction (d = 0
\* for it), the value reset leaves, zero as Cpu::new leaves it, and an
\* address inside the program
SwiLinks(st) ==
    {Add32(st[2], U(IF st[1] THEN 2 ELSE 4)), W(\h0800, 4), Zero, W(\h0800, 28)}

\* dividends and divisors
SwiDividends == {U(7), Zero, W(\hFFFF, \hFFFF)}

SwiDivisors == {Zero, U(2), U(3)}

\* a BIOS image whose word at 0x08 is MOVS PC,LR
BiosImage == WordImage(<<NOP, NOP, W(\hE1B0, \hF00E)>>)

\* the function number a halfword software interrupt at st passes in R7
SwiR7(st) == IF st[2] = W(\h0800, 34) THEN U(42) ELSE U(6)

SwiCpu(st, lr, n, d) ==
    set_pc(set_thumb_mode(
               set_lr(set_reg(set_reg(set_reg(set_reg(Gba_new.cpu, 0, n), 1, d),
                                      3, W(\h3333, \h3333)), 7, SwiR7(st)), lr),
               st[1]),
           st[2])

InitSwi ==
    /\ \E st \in SwiStarts, n \in SwiDividends, d \in SwiDivisors :
       \E lr \in SwiLinks(st) : cpu = SwiCpu(st, lr, n, d)
    /\ \E loaded \in BOOLEAN :
           mem = IF loaded THEN load_bios(load_rom(Gba_new.mem, SwiRom), BiosImage)
                           ELSE load_rom(Gba_new.mem, SwiRom)
    /\ ppu = Gba_new.ppu
    /\ obs = Obs0

NextSwi == CpuStep(MaxSwiSteps)

SpecSwi == InitSwi /\ [][NextSwi]_vars

\* the step just taken executed the full-word software interrupt func
ArmSwiStepped(func) ==
    /\ obs.op = "step"
    /\ ~is_thumb_mode(obs.pre_cpu)
    /\ obs.opcode = Some(ArmSwi(func))

\* the step just taken executed the halfword software interrupt func with the
\* same number in R7
ThumbSwiStepped(func) ==
    /\ obs.op = "step"
    /\ is_thumb_mode(obs.pre_cpu)
    /\ obs.opcode = Some(W(0, ThumbSwi(func)))
    /\ obs.pre_cpu.r[7] = U(func)

DivStepped == ArmSwiStepped(6) \/ ArmSwiStepped(8) \/ ThumbSwiStepped(6)

\* q and r are the unsigned quotient and remainder of n by d /= 0
IsQuotient(n, d, q, r) == ULt(r, d) /\ Add32(Mul32(q, d), r) = n /\ ~ULt(n, q)

\* C23: the division call never faults; with n in R0 and d in R1 it leaves
\* n div d in R0 and n mod d in R3 when d /= 0, 0xFFFFFFFF in R0 and n in R3
\* when d = 0, and no other register of R0-R12 is changed
C23_Division ==
    DivStepped =>
        /\ ~obs.panic
        /\ IF obs.pre_cpu.r[1] # Zero
           THEN IsQuotient(obs.pre_cpu.r[0], obs.pre_cpu.r[1], cpu.r[0], cpu.r[3])
           ELSE cpu.r[0] = W(\hFFFF, \hFFFF) /\ cpu.r[3] = obs.pre_cpu.r[0]
        /\ \A k \in (1..12) \ {3} : cpu.r[k] = obs.pre_cpu.r[k]

\* the step just taken executed a software interrupt whose function number no
\* arm of the match names
UnknownSwiStepped == ArmSwiStepped(42) \/ ThumbSwiStepped(42)

\* the address after the instruction just executed
SwiReturn == Add32(obs.executed[2], U(IF is_thumb_mode(obs.pre_cpu) THEN 2 ELSE 4))

\* C24: while load_bios has never been called, a software interrupt with an
\* unrecognized function number leaves the mode, the saved-status registers
\* and the interrupt-disable bit unchanged and does not go to the vector at
\* 0x08; once an image is loaded it enters Supervisor mode with the old CPSR
\* in the Supervisor SPSR, the return address in LR and the PC at 0x08
C24_UnknownSwi ==
    UnknownSwiStepped =>
        IF mem.bios.stub
        THEN /\ get_mode(cpu) = get_mode(obs.pre_cpu)
             /\ cpu.banked_spsr = obs.pre_cpu.banked_spsr
             /\ are_interrupts_enabled(cpu) = are_interrupts_enabled(obs.pre_cpu)
             /\ NextFetch # U(8)
        ELSE /\ get_mode(cpu) = Supervisor
             /\ get_spsr(cpu) = obs.pre_cpu.cpsr
             /\ get_lr(cpu) = SwiReturn
             /\ NextFetch = U(8)

\* the step just taken executed the full-word software interrupt of a no-op
\* stand-in
NoOpSwiStepped == \E func \in NoOpFuncs : ArmSwiStepped(func)

\* C25: a full-word software interrupt acts on the function number in the
\* instruction itself: for the no-op stand-ins it changes no register of
\* R0-R14, no flag and no mode, and the next instruction executed is the one
\* after the software interrupt, whatever LR held before
C25_SwiFunction ==
    NoOpSwiStepped =>
        /\ ~obs.panic
        /\ \A k \in 0..14 : cpu.r[k] = obs.pre_cpu.r[k]
        /\ cpu.cpsr = obs.pre_cpu.cpsr
        /\ NextFetch = SwiReturn

\* ---------------------------------------------------------------------------
\* Block transfers

MaxBlockSteps == 3

\* LDM/STM with the P, U, W and L bits, the base register and the list
Block(p, u, w, l, rn, reg_list) ==
    W(\hE800 + 256 * p + 128 * u + 32 * w + 16 * l + rn, reg_list)

\* R1, R2 and R5
BlockList == 2 + 4 + 32

BlockRegs == {1, 2, 5}

\* words 0..15: the sixteen P, U, W, L combinations on base R0; words 16..18:
\* STMDB SP!, MOV R1,#0 and LDMIA SP! on the same list
BlockRom ==
    WordImage([k \in 1..16 |->
                   Block(((k - 1) \div 8) % 2, ((k - 1) \div 4) % 2, ((k - 1) \div 2) % 2,
                         (k - 1) % 2, 0, BlockList)]
              \o <<Block(1, 0, 1, 0, 13, BlockList), W(\hE3A0, \h1000),
                   Block(0, 1, 1, 1, 13, BlockList)>>)

BlockStarts == {W(\h0800, 4 * k) : k \in 0..16}

\* bases in the two work RAMs
BlockBases == {W(\h0200, \h0020), W(\h0300, \h0040)}

BlockValues == {W(\h1111, \h0001), W(\h8000, \h00FF)}

\* the word the memory holds at addr before the transfer
BlockWord(addr) == W(\hC0DE, Lo(addr))

\* the words at base - 16 .. base + 16, from the highest down, as long as the
\* writes change the memory
RECURSIVE BlockFill(_, _, _)
BlockFill(m, base, k) ==
    IF k = 0 THEN m
    ELSE LET written == write_word(m, Add32(Sub32(base, U(20)), U(4 * k)),
                                   BlockWord(Add32(Sub32(base, U(20)), U(4 * k))))
         IN  IF written = m THEN m ELSE BlockFill(written, base, k - 1)

BlockCpu(start, base, v) ==
    set_pc(set_reg(set_reg(set_reg(set_sp(set_reg(Gba_new.cpu, 0, base), base), 1, v),
                           2, Not32(v)), 5, Add32(v, U(5))),
           start)

InitBlock ==
    /\ \E start \in BlockStarts, base \in BlockBases, v \in BlockValues :
           /\ cpu = BlockCpu(start, base, v)
           /\ \E m1 \in {load_rom(Gba_new.mem, BlockRom)} : mem = BlockFill(m1, base, 9)
    /\ ppu = Gba_new.ppu
    /\ obs = Obs0

NextBlock == CpuStep(MaxBlockSteps)

SpecBlock == InitBlock /\ [][NextBlock]_vars

\* the step just taken executed a block transfer of the list
BlockStepped ==
    /\ obs.op = "step"
    /\ Field(obs.opcode[2], 25, 3) = 4
    /\ Field(obs.opcode[2], 0, 16) = BlockList

\* the base register of the transfer and its value before the step
BlockRn == Field(obs.opcode[2], 16, 4)

BlockBase == obs.pre_cpu.r[BlockRn]

\* the number of registers of the list
BlockCount == Cardinality(BlockRegs)

\* the lowest address of the transfer: b (IA), b + 4 (IB), b - 4n + 4 (DA) and
\* b - 4n (DB)
BlockFirst ==
    CASE Bit(obs.opcode[2], 23) = 1 /\ Bit(obs.opcode[2], 24) = 0 -> BlockBase
      [] Bit(obs.opcode[2], 23) = 1 /\ Bit(obs.opcode[2], 24) = 1 -> Add32(BlockBase, U(4))
      [] Bit(obs.opcode[2], 23) = 0 /\ Bit(obs.opcode[2], 24) = 0 ->
            Sub32(BlockBase, U(4 * BlockCount - 4))
      [] OTHER -> Sub32(BlockBase, U(4 * BlockCount))

\* the address of listed register k: ascending registers at ascending addresses
BlockAddr(k) == Add32(BlockFirst, U(4 * Cardinality({j \in BlockRegs : j < k})))

\* the base after the transfer
BlockEnd ==
    IF Bit(obs.opcode[2], 21) = 0 THEN BlockBase
    ELSE IF Bit(obs.opcode[2], 23) = 1 THEN Add32(BlockBase, U(4 * BlockCount))
    ELSE Sub32(BlockBase, U(4 * BlockCount))

\* the three steps over STMDB SP!, MOV R1,#0 and LDMIA SP!
BlockPairStepped ==
    obs.trace = <<W(\h0800, 64), W(\h0800, 68), W(\h0800, 72)>>

\* C26: a block transfer of n registers with base b moves the registers in
\* ascending order to or from the ascending addresses that start at b (IA),
\* b + 4 (IB), b - 4n + 4 (DA) or b - 4n (DB), with write-back the base ends
\* at b + 4n or b - 4n, and STMDB followed by LDMIA of the same list restores
\* the listed registers and the base
C26_BlockTransfer ==
    /\ BlockStepped =>
           /\ \A k \in BlockRegs :
                  IF Bit(obs.opcode[2], 20) = 1
                  THEN cpu.r[k] = read_word(obs.pre_mem, BlockAddr(k))
                  ELSE read_word(mem, BlockAddr(k)) = obs.pre_cpu.r[k]
           /\ cpu.r[BlockRn] = BlockEnd
    /\ BlockPairStepped =>
           /\ cpu.r[1] \in BlockValues
           /\ cpu.r[2] = Not32(cpu.r[1])
           /\ cpu.r[5] = Add32(cpu.r[1], U(5))
           /\ cpu.r[13] \in BlockBases

\* ---------------------------------------------------------------------------
\* Halfword decoding

MaxDecodeSteps == 2

\* the sixteen register ALU operations on R0 and R1
ThumbAlu(op) == \h4000 + 64 * op + 8

\* ADD and SUB with a register or a 3-bit immediate, PUSH and POP with and
\* without LR/PC, STMIA and LDMIA on R2, SWI 1 and two unconditional branches
DecodeOthers ==
    <<\h1888, \h1A88, \h1C48, \h1E48, \hB403, \hB503, \hBC03, \hBD03,
      \hC203, \hCA03, \hDF01, \hE002, \hE7FE>>

DecodeOps == [k \in 1..16 |-> ThumbAlu(k - 1)] \o DecodeOthers

\* halfword 2k of the cartridge is the k-th opcode, halfword 2k + 1 is
\* MOV R8,R8 (0x46C0)
DecodeHalf(h) == IF h % 2 = 1 THEN DecodeOps[(h + 1) \div 2] ELSE \h46C0

\* the little-endian bytes of the halfwords
DecodeRom ==
    [i \in 1..(4 * Len(DecodeOps)) |->
        IF i % 2 = 1 THEN DecodeHalf((i + 1) \div 2) % 256 ELSE DecodeHalf(i \div 2) \div 256]

DecodeStarts == {W(\h0800, 4 * (k - 1)) : k \in 1..Len(DecodeOps)}

DecodeValues == {<<W(\h1111, \h0001), U(3)>>, <<W(\h8000, \h00FF), W(\h8000, \h0001)>>}

DecodeCpu(start, v) ==
    set_pc(set_thumb_mode(
               set_reg(set_sp(set_reg(set_reg(set_reg(Gba_new.cpu, 0, v[1]), 1, v[2]),
                                      2, W(\h0300, \h0040)),
                              W(\h0300, \h0040)),
                       7, U(1)),
               TRUE),
           start)

InitDecode ==
    /\ \E start \in DecodeStarts, v \in DecodeValues : cpu = DecodeCpu(start, v)
    /\ \E m1 \in {load_rom(Gba_new.mem, DecodeRom)} :
           mem = BlockFill(m1, W(\h0300, \h0040), 9)
    /\ ppu = Gba_new.ppu
    /\ obs = Obs0

NextDecode == CpuStep(MaxDecodeSteps)

SpecDecode == InitDecode /\ [][NextDecode]_vars

\* the handler of the format of a halfword opcode
thumb_format(c, m, opcode, instruction_pc) ==
    CASE opcode >= \h4000 /\ opcode <= \h43FF -> thumb_data_proc_reg(c, m, opcode)
      [] opcode >= \h1800 /\ opcode <= \h1FFF -> thumb_add_sub_imm(c, m, opcode)
      [] opcode \div 512 = \hB4 \div 2 -> thumb_push_pop(c, m, opcode, FALSE)
      [] opcode \div 512 = \hBC \div 2 -> thumb_push_pop(c, m, opcode, TRUE)
      [] opcode >= \hC000 /\ opcode <= \hCFFF ->
            thumb_load_store_multiple(c, m, opcode, TF(opcode, 11, 1) = 1)
      [] opcode \div 256 = \hDF -> thumb_software_interrupt(c, m)
      [] opcode >= \hE000 /\ opcode <= \hE7FF -> thumb_branch(c, m, opcode, instruction_pc)
      [] OTHER -> execute_thumb(c, m, opcode, instruction_pc)

\* the step just taken executed one of the opcodes of the table
DecodeStepped ==
    /\ obs.op = "step"
    /\ is_thumb_mode(obs.pre_cpu)
    /\ \E k \in 1..Len(DecodeOps) : obs.opcode = Some(W(0, DecodeOps[k]))

\* the Cpu before the step with the pipeline filled, and with the pipeline
\* shifted for the execution
DecodeFilled ==
    IF ~obs.pre_cpu.pipeline_loaded
    THEN step_thumb_fill(obs.pre_cpu, obs.pre_mem, obs.pre_cpu.r[15],
                         Add32(obs.pre_cpu.r[15], U(2)), Add32(obs.pre_cpu.r[15], U(4)))
    ELSE obs.pre_cpu

DecodeShifted ==
    [DecodeFilled EXCEPT
        !.pipeline = Slots(DecodeFilled.pipeline[1], DecodeFilled.pipeline[2],
                           DecodeFilled.pipeline[2]),
        !.pipeline_pc = Slots(DecodeFilled.pipeline_pc[1], DecodeFilled.pipeline_pc[2],
                              DecodeFilled.pipeline_pc[2])]

\* the step with the opcode executed by the handler of its format
DecodeRouted ==
    step_thumb_finish(thumb_format(DecodeShifted, obs.pre_mem, Lo(obs.opcode[2]),
                                   obs.executed[2]),
                      DecodeFilled)

\* the number of words a PUSH or POP moves
DecodeWords ==
    count_ones(Lo(obs.opcode[2]) % 256) + TF(Lo(obs.opcode[2]), 8, 1)

\* C27: a step over a halfword opcode has the effect of the handler of its
\* format: the register ALU handler for 0x4000-0x43FF, add/subtract for
\* 0x1800-0x1FFF, push for 0xB4xx/0xB5xx with SP decreasing, pop for
\* 0xBCxx/0xBDxx with SP increasing, load/store multiple for 0xC000-0xCFFF,
\* the software interrupt for 0xDFxx and the unconditional branch for
\* 0xE000-0xE7FF
C27_ThumbRouting ==
    DecodeStepped =>
        /\ cpu = DecodeRouted.cpu
        /\ mem = DecodeRouted.mem
        /\ Lo(obs.opcode[2]) \div 512 = \hB4 \div 2 =>
               cpu.r[13] = Sub32(obs.pre_cpu.r[13], U(4 * DecodeWords))
        /\ Lo(obs.opcode[2]) \div 512 = \hBC \div 2 =>
               cpu.r[13] = Add32(obs.pre_cpu.r[13], U(4 * DecodeWords))

(***************************************************************************)
(* Hardware interrupt entry between instructions: Gba::step with VBlank    *)
(* enabled in the controller, requested at any point of a program that     *)
(* holds sequential instructions and a taken branch, in ARM and in Thumb.  *)
(***************************************************************************)
\* NOP; B 0x0800000C; NOP; NOP; B 0x08000008; NOP; NOP; NOP, then eight
\* Thumb MOV R8,R8 at 0x08000020
EntryRom ==
    WordImage(<<NOP, Branch(FALSE, 0), NOP, NOP, Branch(FALSE, -4), NOP, NOP, NOP>>)
    \o HalfImage([k \in 1..8 |-> \h46C0])

EntryStarts == {W(\h0800, 0), W(\h0800, 4), W(\h0800, 8), W(\h0800, 12), ThumbBase}

EntryCpu(start) ==
    set_pc(set_thumb_mode(Gba_new.cpu, start = ThumbBase), start)

\* IE = VBlank and IME = 1 written by the program's set-up
EntryMem(bios) ==
    LET m == load_bios(load_rom(Gba_new.mem, EntryRom), bios)
    IN  [m EXCEPT !.interrupt =
            write_register(write_register(m.interrupt, \h000, 1), \h208, 1)]

InitEntry ==
    /\ \E start \in EntryStarts : cpu = EntryCpu(start)
    /\ mem = EntryMem(ReturnBios)
    /\ ppu = Gba_new.ppu
    /\ obs = Obs0

NextEntry ==
    \/ GbaStep
    \/ GbaRequest(Interrupt_VBLANK)

SpecEntry == InitEntry /\ [][NextEntry]_vars

\* the last system step performed interrupt entry
EntryStepped == obs.op = "gba_step" /\ obs.entered

\* the address of the instruction the CPU in state c executes next
next_instruction(c) == IF c.pipeline_loaded THEN c.pipeline_pc[0] ELSE c.r[15]

\* the state a taken branch to the next instruction of c leaves
AfterBranchTo(c) ==
    [c EXCEPT !.r[15] = next_instruction(c), !.pipeline_loaded = FALSE]

\* C28: the LR stored by interrupt entry is at one fixed distance from the
\* address of the instruction that would have executed next, the same after a
\* sequential instruction and after a taken branch to that instruction
C28_EntryLink ==
    EntryStepped =>
        Sub32(get_lr(obs.entry_cpu), next_instruction(obs.pre_cpu))
            = Sub32(get_lr(take_interrupt(AfterBranchTo(obs.pre_cpu))),
                    next_instruction(obs.pre_cpu))

\* C29: after interrupt entry the T bit is clear and the instruction at the
\* vector 0x18 is fetched and decoded as a 32-bit word
C29_EntryArm ==
    EntryStepped =>
        /\ ~is_thumb_mode(obs.entry_cpu)
        /\ obs.executed = Some(W(0, \h0018))
        /\ obs.opcode = Some(read_word(obs.pre_mem, W(0, \h0018)))

(***************************************************************************)
(* Video RAM: writes of the three widths at the start, in the middle and   *)
(* at the end of 0x06000000-0x06017FFF, and the bytes read back.           *)
(***************************************************************************)
VramAddrs ==
    {W(\h0600, 0), W(\h0600, 1), W(\h0600, 2), W(\h0600, \h7FFE), W(\h0600, \h8000),
     W(\h0600, \h8001), W(\h0600, \hFFFC), W(\h0601, 0), W(\h0601, 2),
     W(\h0601, \h7FFC), W(\h0601, \h7FFF)}

VramValues == {W(\h1234, \h5678), W(\h9ABC, \hDEF0)}

\* the address is in 0x06000000-0x06017FFF
InVram(addr) ==
    \/ Hi(addr) = \h0600
    \/ Hi(addr) = \h0601 /\ Lo(addr) < 32768

\* the addresses whose bytes are read back
VramProbes == {a \in {Add32(base, U(d)) : base \in VramAddrs, d \in 0..3} : InVram(a)}

InitVram ==
    /\ cpu = Gba_new.cpu
    /\ mem = Gba_new.mem
    /\ ppu = Gba_new.ppu
    /\ obs = Obs0

NextVram ==
    \/ \E addr \in VramAddrs, val \in VramValues : MemWriteByte(addr, Lo(val) % 256)
    \/ \E addr \in VramAddrs, val \in VramValues : MemWriteHalf(addr, Lo(val))
    \/ \E addr \in VramAddrs, val \in VramValues : MemWriteWord(addr, val)
    \/ \E addr \in VramAddrs : MemReadByte(addr, MaxDiscardOps)

SpecVram == InitVram /\ [][NextVram]_vars

\* the addresses a write of the operation's width at addr is directed to; a
\* byte write to video RAM is a write of the byte to both halves of its halfword
VramWritten(op, addr) ==
    CASE op = "write_byte" -> {addr, Xor32(addr, U(1))}
      [] op = "write_half" -> {addr, Add32(addr, U(1))}
      [] op = "write_word" -> {Add32(addr, U(d)) : d \in 0..3}

VramWrite == obs.op \in {"write_byte", "write_half", "write_word"} /\ InVram(obs.arg[1])

\* C30: a write to addresses of 0x06000000-0x06017FFF leaves the byte read
\* back from every other address of the range unchanged
C30_VramDistinct ==
    VramWrite =>
        \A b \in VramProbes \ VramWritten(obs.op, obs.arg[1]) :
            read_byte(mem, b) = read_byte(obs.pre_mem, b)

====
